---- MODULE Spec2Model ----
(***************************************************************************)
(* Brand-aware icon synchronization: the Asset Store (BrandManager), the   *)
(* Token Registry (TokenManager and the Synchronizer's rebuild) and the    *)
(* Synchronizer (FigmaIconSync) run as a state machine.                    *)
(*                                                                         *)
(* A JavaScript string is modelled as a sequence of one-character strings  *)
(* (a file extension or a fixed word may be one element), so that name     *)
(* normalisation and key formatting are computed, not assumed.             *)
(***************************************************************************)
EXTENDS Integers, Sequences, FiniteSets, TLC

(***************************************************************************)
(* Strings                                                                 *)
(***************************************************************************)

\* String.prototype.toLowerCase on the characters the inputs use.
ToLowerCase(ch) ==
  IF ch = "A" THEN "a"
  ELSE IF ch = "B" THEN "b"
  ELSE IF ch = "C" THEN "c"
  ELSE ch

\* The character class [a-z0-9] on the characters the inputs use.
IsAlnum(ch) == ch \in {"a", "b", "c", "d", "0", "1"}

\* .toLowerCase().replace(/[^a-z0-9]/g, '-')
ReplaceNonAlnum(s) ==
  [i \in 1..Len(s) |-> IF IsAlnum(ToLowerCase(s[i])) THEN ToLowerCase(s[i]) ELSE "-"]

\* .replace(/-+/g, '-')
RECURSIVE CollapseHyphens(_)
CollapseHyphens(s) ==
  IF Len(s) <= 1 THEN s
  ELSE IF s[1] = "-" /\ s[2] = "-" THEN CollapseHyphens(Tail(s))
  ELSE <<s[1]>> \o CollapseHyphens(Tail(s))

\* .replace(/^-|-$/g, ''): one leading and one trailing hyphen are removed.
StripHyphens(s) ==
  LET t == IF Len(s) > 0 /\ s[1] = "-" THEN Tail(s) ELSE s
  IN  IF Len(t) > 0 /\ t[Len(t)] = "-" THEN SubSeq(t, 1, Len(t) - 1) ELSE t

\* The normalisation chain shared by BrandManager and FigmaApiService.
Sanitize(name) == StripHyphens(CollapseHyphens(ReplaceNonAlnum(name)))

\* String.prototype.includes for a one-element needle.
Includes(content, needle) == \E i \in 1..Len(content) : content[i] = needle

\* Collation rank of the characters a normalised name can hold
\* (localeCompare: punctuation before digits before letters).
CharRank(ch) ==
  CASE ch = "-" -> 0
    [] ch = "0" -> 1
    [] ch = "1" -> 2
    [] ch = "a" -> 3
    [] ch = "b" -> 4
    [] ch = "c" -> 5
    [] ch = "d" -> 6
    [] OTHER    -> 7

\* a.localeCompare(b) < 0 on normalised names.
RECURSIVE NameLess(_, _)
NameLess(a, b) ==
  IF b = <<>> THEN FALSE
  ELSE IF a = <<>> THEN TRUE
  ELSE IF CharRank(a[1]) # CharRank(b[1]) THEN CharRank(a[1]) < CharRank(b[1])
  ELSE NameLess(Tail(a), Tail(b))

(***************************************************************************)
(* Asset Store (BrandManager).  The assets directory is a function from    *)
(* brand directory names to directories; a directory is a function from    *)
(* files <<name, format>> (the file `name.format`) to contents.            *)
(***************************************************************************)

supportedFormats == <<"svg", "png", "jpg", "jpeg">>

EmptyDir == [f \in {} |-> <<>>]

FormatIndex(fmt) ==
  IF \E i \in 1..Len(supportedFormats) : supportedFormats[i] = fmt
  THEN CHOOSE i \in 1..Len(supportedFormats) : supportedFormats[i] = fmt
  ELSE 0

\* sanitizeBrandName / sanitizeIconName throw on an empty argument.
ValidName(name) == name # <<>>

\* getBrandDirectory: the directory of a brand is named by its sanitized name;
\* the argument must be non-empty.
GetBrandDirectory(brandName) == Sanitize(brandName)

\* Files of a directory that getIconsForBrand lists: a supported extension, and
\* a non-empty base name (path.extname of the dot-file `.svg` is empty).
ListedFiles(dir) ==
  {f \in DOMAIN dir : FormatIndex(f[2]) > 0 /\ f[1] # <<>>}

FileLess(f, g) ==
  \/ NameLess(f[1], g[1])
  \/ f[1] = g[1] /\ FormatIndex(f[2]) < FormatIndex(g[2])

\* icons.sort((a, b) => a.name.localeCompare(b.name)); files of one name keep
\* the directory order, taken here as the order of their formats.
RECURSIVE SortFiles(_)
SortFiles(F) ==
  IF F = {} THEN <<>>
  ELSE LET m == CHOOSE f \in F : \A g \in F \ {f} : FileLess(f, g)
       IN  <<[name |-> m[1], format |-> m[2]]>> \o SortFiles(F \ {m})

\* getIconsForBrand: [code, icons].
GetIconsForBrand(as, brandName) ==
  IF ~ValidName(brandName) \/ ~ValidName(Sanitize(brandName))
  THEN [code |-> "INVALID_BRAND_NAME", icons |-> <<>>]
  ELSE LET dir == GetBrandDirectory(Sanitize(brandName))
       IN  IF dir \notin DOMAIN as
           THEN [code |-> "BRAND_NOT_FOUND", icons |-> <<>>]
           ELSE [code |-> "OK", icons |-> SortFiles(ListedFiles(as[dir]))]

\* getAllBrands: the directories of the assets directory.
GetAllBrands(as) == DOMAIN as

\* createBrand: [code, assets].
CreateBrand(as, brandName) ==
  IF ~ValidName(brandName) \/ ~ValidName(Sanitize(brandName))
  THEN [code |-> "INVALID_BRAND_NAME", assets |-> as]
  ELSE LET dir == GetBrandDirectory(Sanitize(brandName))
       IN  IF dir \in DOMAIN as
           THEN [code |-> "BRAND_EXISTS", assets |-> as]
           ELSE [code |-> "OK",
                 assets |-> [b \in DOMAIN as \cup {dir} |->
                               IF b = dir THEN EmptyDir ELSE as[b]]]

\* fs.writeFileSync(iconPath, content)
WriteFile(as, dir, file, content) ==
  [b \in DOMAIN as |->
     IF b = dir
     THEN [f \in DOMAIN as[b] \cup {file} |-> IF f = file THEN content ELSE as[b][f]]
     ELSE as[b]]

\* fs.unlinkSync(iconPath)
Unlink(as, dir, file) ==
  [b \in DOMAIN as |->
     IF b = dir THEN [f \in DOMAIN as[b] \ {file} |-> as[b][f]] ELSE as[b]]

\* addIconToBrand: [code, assets].
AddIconToBrand(as, brandName, iconName, content, format) ==
  IF ~ValidName(brandName) THEN [code |-> "INVALID_BRAND_NAME", assets |-> as]
  ELSE IF ~ValidName(iconName) THEN [code |-> "INVALID_ICON_NAME", assets |-> as]
  ELSE IF ~ValidName(Sanitize(brandName))
       THEN [code |-> "INVALID_BRAND_NAME", assets |-> as]
  ELSE
    LET dir  == GetBrandDirectory(Sanitize(brandName))
        as1  == IF dir \in DOMAIN as THEN as
                ELSE CreateBrand(as, Sanitize(brandName)).assets
        file == <<Sanitize(iconName), format>>
    IN  IF file \in DOMAIN as1[dir]
        THEN [code |-> "ICON_EXISTS", assets |-> as1]
        ELSE IF format = "svg" /\ ~Includes(content, "<svg")
        THEN [code |-> "ADD_ICON_ERROR", assets |-> as1]
        ELSE [code |-> "OK", assets |-> WriteFile(as1, dir, file, content)]

\* removeIconFromBrand: [code, assets]; the first supported format that has a
\* file of the name is the one removed.
RemoveIconFromBrand(as, brandName, iconName) ==
  IF ~ValidName(brandName) THEN [code |-> "INVALID_BRAND_NAME", assets |-> as]
  ELSE IF ~ValidName(iconName) THEN [code |-> "INVALID_ICON_NAME", assets |-> as]
  ELSE IF ~ValidName(Sanitize(brandName))
       THEN [code |-> "INVALID_BRAND_NAME", assets |-> as]
  ELSE
    LET dir   == GetBrandDirectory(Sanitize(brandName))
        found == IF dir \in DOMAIN as
                 THEN {i \in 1..Len(supportedFormats) :
                         <<Sanitize(iconName), supportedFormats[i]>> \in DOMAIN as[dir]}
                 ELSE {}
    IN  IF dir \notin DOMAIN as THEN [code |-> "BRAND_NOT_FOUND", assets |-> as]
        ELSE IF found = {} THEN [code |-> "ICON_NOT_FOUND", assets |-> as]
        ELSE LET i == CHOOSE j \in found : \A k \in found : j <= k
             IN  [code |-> "OK",
                  assets |-> Unlink(as, dir, <<Sanitize(iconName), supportedFormats[i]>>)]

\* A removeBrand that refuses a directory with files in it.
RemoveBrandOnlyEmpty(as, brandName) ==
  IF ~ValidName(brandName) \/ ~ValidName(Sanitize(brandName))
  THEN [code |-> "INVALID_BRAND_NAME", assets |-> as]
  ELSE LET dir == GetBrandDirectory(Sanitize(brandName))
       IN  IF dir \notin DOMAIN as
           THEN [code |-> "BRAND_NOT_FOUND", assets |-> as]
           ELSE IF DOMAIN as[dir] # {}
           THEN [code |-> "REMOVE_BRAND_ERROR", assets |-> as]
           ELSE [code |-> "OK", assets |-> [b \in DOMAIN as \ {dir} |-> as[b]]]

\* removeBrand: [code, assets]; the directory goes with everything in it.
RemoveBrand(as, brandName) ==
  IF ~ValidName(brandName) \/ ~ValidName(Sanitize(brandName))
  THEN [code |-> "INVALID_BRAND_NAME", assets |-> as]
  ELSE LET dir == GetBrandDirectory(Sanitize(brandName))
       IN  IF dir \notin DOMAIN as
           THEN [code |-> "BRAND_NOT_FOUND", assets |-> as]
           ELSE [code |-> "OK", assets |-> [b \in DOMAIN as \ {dir} |-> as[b]]]

(***************************************************************************)
(* Remote Source Adapter (FigmaApiService): the brand -> icon list view.   *)
(* A remote file is [pages, components]: the names of the top-level pages  *)
(* and the registered components [node_id, name, description].             *)
(***************************************************************************)

\* isComponentOnPage: the placeholder accepts every component for every page.
IsComponentOnPage(component, page) == TRUE

\* The descriptors of one page with the components' names taken as they are.
PageIconsRawName(file, page) ==
  LET on == SelectSeq(file.components, LAMBDA c : IsComponentOnPage(c, page))
  IN  [i \in 1..Len(on) |->
         [id           |-> on[i].node_id,
          name         |-> on[i].name,
          description  |-> on[i].description,
          originalName |-> on[i].name]]

\* The descriptors getIconsByBrand pushes for one page.
PageIcons(file, page) ==
  LET on == SelectSeq(file.components, LAMBDA c : IsComponentOnPage(c, page))
  IN  [i \in 1..Len(on) |->
         [id           |-> on[i].node_id,
          name         |-> Sanitize(on[i].name),
          description  |-> on[i].description,
          originalName |-> on[i].name]]

\* Object.entries order of brandIcons: keys in the order of their first insertion.
RECURSIVE BrandOrder(_, _)
BrandOrder(pages, seen) ==
  IF pages = <<>> THEN <<>>
  ELSE LET b == Sanitize(pages[1])
       IN  IF b \in seen THEN BrandOrder(Tail(pages), seen)
           ELSE <<b>> \o BrandOrder(Tail(pages), seen \cup {b})

\* getIconsByBrand: [order, icons]; a later page of the same brand name
\* overwrites the list of the earlier one.
GetIconsByBrand(file) ==
  LET order == BrandOrder(file.pages, {})
      last(b) == CHOOSE i \in 1..Len(file.pages) :
                   /\ Sanitize(file.pages[i]) = b
                   /\ \A j \in 1..Len(file.pages) :
                        Sanitize(file.pages[j]) = b => j <= i
  IN  [order |-> order,
       icons |-> [b \in {order[i] : i \in 1..Len(order)} |->
                    PageIcons(file, file.pages[last(b)])]]

NoIcons == [order |-> <<>>, icons |-> [b \in {} |-> <<>>]]

(***************************************************************************)
(* Synchronizer (FigmaIconSync): pure parts.                               *)
(***************************************************************************)

RECURSIVE SortNames(_)
SortNames(S) ==
  IF S = {} THEN <<>>
  ELSE LET m == CHOOSE a \in S : \A b \in S \ {a} : NameLess(a, b)
       IN  <<m>> \o SortNames(S \ {m})

\* buildCurrentState: brand -> the icon names listed for it (a brand whose
\* listing fails maps to no names).
BuildCurrentState(as) ==
  [b \in GetAllBrands(as) |->
     LET r == GetIconsForBrand(as, b)
     IN  IF r.code = "OK" THEN {r.icons[i].name : i \in 1..Len(r.icons)} ELSE {}]

\* currentState[brandName] || {}
CurrentIcons(cur, brandName) ==
  IF brandName \in DOMAIN cur THEN cur[brandName] ELSE {}

EmptyResults == [added |-> <<>>, updated |-> <<>>, removed |-> <<>>,
                 errors |-> <<>>, skipped |-> <<>>]

EmptyStats == [totalBrands |-> 0, totalIcons |-> 0, added |-> 0, updated |-> 0,
               removed |-> 0, errors |-> <<>>]

\* The catch block of processIcon for ICON_EXISTS: the existing file is removed,
\* then the re-add reads `svgContent`, a const of the try block that is not in
\* scope in the catch block, which throws a ReferenceError before addIconToBrand
\* is called.  [code, assets].
IconExistsFallback(as, brandName, icon, content) ==
  LET rm == RemoveIconFromBrand(as, brandName, icon.name)
  IN  IF rm.code # "OK" THEN rm
      ELSE [code |-> "ReferenceError: svgContent is not defined", assets |-> rm.assets]

\* What downloadAndSyncIcons records when processIcon throws.
IconError(st, brandName, icon, message) ==
  [st EXCEPT
     !.threw = TRUE,
     !.res.errors = Append(@, [icon |-> icon.name, error |-> message]),
     !.stats.errors = Append(@, [type |-> "ICON_PROCESS_ERROR", brand |-> brandName,
                                 icon |-> icon.name, message |-> message])]

Classified(icon, action) ==
  [name |-> icon.name, originalName |-> icon.originalName, action |-> action]

\* processIcon inside the try/catch of its caller.  st = [assets, res, stats,
\* threw]; outcome = [kind, content]: the export URL and download the remote gave.
ProcessIcon(st, dry, brandName, icon, outcome, currentIcons) ==
  IF outcome.kind = "NO_URL"
  THEN [st EXCEPT !.res.errors =
          Append(@, [icon |-> icon.name, error |-> "No export URL provided by Figma"])]
  ELSE IF outcome.kind # "OK"
  THEN IconError(st, brandName, icon, outcome.kind)
  ELSE
    LET isUpdate == icon.name \in currentIcons
    IN  IF dry
        THEN IF isUpdate
             THEN [st EXCEPT !.res.updated = Append(@, Classified(icon, "would-update"))]
             ELSE [st EXCEPT !.res.added = Append(@, Classified(icon, "would-add"))]
        ELSE
          LET r == AddIconToBrand(st.assets, brandName, icon.name, outcome.content, "svg")
          IN  IF r.code = "OK"
              THEN IF isUpdate
                   THEN [st EXCEPT !.assets = r.assets,
                                   !.res.updated = Append(@, Classified(icon, "updated")),
                                   !.stats.updated = @ + 1]
                   ELSE [st EXCEPT !.assets = r.assets,
                                   !.res.added = Append(@, Classified(icon, "added")),
                                   !.stats.added = @ + 1]
              ELSE IF r.code = "ICON_EXISTS"
              THEN LET f == IconExistsFallback(r.assets, brandName, icon, outcome.content)
                   IN  IF f.code = "OK"
                       THEN [st EXCEPT !.assets = f.assets,
                                       !.res.updated = Append(@, Classified(icon, "updated")),
                                       !.stats.updated = @ + 1]
                       ELSE IconError([st EXCEPT !.assets = f.assets], brandName, icon, f.code)
              ELSE IconError([st EXCEPT !.assets = r.assets], brandName, icon, r.code)

\* handleRemovedIcons over the snapshot names still to visit (Object.keys order).
RECURSIVE HandleRemoved(_, _, _, _, _)
HandleRemoved(st, dry, brandName, figmaIconNames, names) ==
  IF names = <<>> THEN st
  ELSE
    LET n == names[1]
        st1 ==
          IF n \in figmaIconNames THEN st
          ELSE IF dry
          THEN [st EXCEPT !.res.removed = Append(@, [name |-> n, action |-> "would-remove"])]
          ELSE LET r == RemoveIconFromBrand(st.assets, brandName, n)
               IN  IF r.code = "OK"
                   THEN [st EXCEPT !.assets = r.assets,
                                   !.res.removed = Append(@, [name |-> n, action |-> "removed"]),
                                   !.stats.removed = @ + 1]
                   ELSE [st EXCEPT !.res.errors =
                           Append(@, [icon |-> n, error |-> "Failed to remove: " \o r.code])]
    IN  HandleRemoved(st1, dry, brandName, figmaIconNames, Tail(names))

\* A removal that also deletes every other brand directory.
HandleRemovedIconsAndBrands(st, dry, brandName, icons, currentIcons) ==
  LET r == HandleRemoved(st, dry, brandName,
                         {icons[i].name : i \in 1..Len(icons)}, SortNames(currentIcons))
  IN  IF dry THEN r
      ELSE [r EXCEPT !.assets = [b \in DOMAIN r.assets \cap {brandName} |-> r.assets[b]]]

HandleRemovedIcons(st, dry, brandName, icons, currentIcons) ==
  HandleRemoved(st, dry, brandName,
                {icons[i].name : i \in 1..Len(icons)}, SortNames(currentIcons))

\* The token entry updateTokensFile writes for one remote icon.
SyncTokenKey(brandName, icon) == brandName \o <<"-">> \o icon.name

SyncTokenEntry(brandName, icon) ==
  [value        |-> brandName \o <<"/">> \o icon.name \o <<".", "svg">>,
   type         |-> "asset",
   description  |-> IF icon.description # <<>> THEN icon.description
                    ELSE icon.originalName \o <<" ", "icon">>,
   brand        |-> brandName,
   name         |-> icon.name,
   originalName |-> icon.originalName]

\* A loop whose try/catch is around the loop instead of inside its body: the
\* first throw leaves it.
IconLoopNextAbortOnThrow(idx, n, threw) ==
  IF idx < n /\ ~threw THEN [pc |-> "icon", iconIdx |-> idx + 1]
  ELSE [pc |-> "removed", iconIdx |-> idx]

\* The for loop over a brand's icons, with its try/catch inside the loop body:
\* the position after the icon at idx of n, whether or not processIcon threw.
IconLoopNext(idx, n, threw) ==
  IF idx < n THEN [pc |-> "icon", iconIdx |-> idx + 1]
  ELSE [pc |-> "removed", iconIdx |-> idx]

NoTokens == [k \in {} |-> <<>>]

\* tokens.icon[key] = entry
PutToken(tk, key, entry) ==
  [k \in DOMAIN tk \cup {key} |-> IF k = key THEN entry ELSE tk[k]]

RECURSIVE BrandTokens(_, _, _)
BrandTokens(tk, brandName, icons) ==
  IF icons = <<>> THEN tk
  ELSE BrandTokens(PutToken(tk, SyncTokenKey(brandName, icons[1]),
                            SyncTokenEntry(brandName, icons[1])),
                   brandName, Tail(icons))

\* The registry updateTokensFile builds from the remote listing.
RECURSIVE BuildTokens(_, _, _)
BuildTokens(tk, fi, order) ==
  IF order = <<>> THEN tk
  ELSE BuildTokens(BrandTokens(tk, order[1], fi.icons[order[1]]), fi, Tail(order))

\* A rebuild that starts from the entries the file held.
RebuildRegistryMerging(old, fi) ==
  [exists |-> TRUE, icon |-> BuildTokens(old.icon, fi, fi.order)]

\* tokens = { icon: {} } filled from the remote listing: the registry file
\* updateTokensFile writes, whatever the file held before.
RebuildRegistry(old, fi) ==
  [exists |-> TRUE, icon |-> BuildTokens(NoTokens, fi, fi.order)]

\* An updateTokensFile without its dry-run return.
TokensToWriteInDryRun(dry, old, fi) == RebuildRegistry(old, fi)

\* updateTokensFile when the write succeeds: nothing is written in a dry run.
TokensToWrite(dry, old, fi) ==
  IF dry THEN old ELSE RebuildRegistry(old, fi)

(***************************************************************************)
(* Inputs.                                                                 *)
(***************************************************************************)

\* Sync runs (process invocations) in one behaviour.
MaxRuns == 2

\* Failing remote calls and file writes in one behaviour.
MaxFaults == 1

OldSvg == <<"<svg", "old">>
NewSvg == <<"<svg", "new">>
PngBytes == <<"png">>

BrandA == <<"a">>
IconC == <<"c">>
IconBC == <<"b", "-", "c">>
IconD == <<"d">>

PageA == <<"A">>
PageAB == <<"A", " ", "b">>
PageBlank == <<" ">>

CompC == [node_id |-> "1:1", name |-> <<"c">>, description |-> <<>>]
CompBC == [node_id |-> "1:2", name |-> <<"B", " ", "c">>, description |-> <<"d">>]
CompDash == [node_id |-> "1:3", name |-> <<"-">>, description |-> <<>>]
CompC2 == [node_id |-> "1:4", name |-> <<"C">>, description |-> <<>>]

PageLists == {<<PageA>>, <<PageA, PageAB>>, <<PageBlank, PageA>>}

ComponentLists ==
  {<<>>, <<CompC>>, <<CompC, CompBC>>, <<CompDash, CompC>>, <<CompC, CompC2>>}

RemoteFiles == {[pages |-> p, components |-> c] : p \in PageLists, c \in ComponentLists}

\* Asset directories earlier addIconToBrand calls leave behind.
NoAssets == [b \in {} |-> EmptyDir]
StoreC == AddIconToBrand(NoAssets, BrandA, IconC, OldSvg, "svg").assets
StoreCBC == AddIconToBrand(StoreC, BrandA, IconBC, OldSvg, "svg").assets
StoreCPng == AddIconToBrand(NoAssets, BrandA, IconC, PngBytes, "png").assets
StoreDD == AddIconToBrand(AddIconToBrand(NoAssets, BrandA, IconD, OldSvg, "svg").assets,
                          BrandA, IconD, PngBytes, "png").assets
StoreTwo == AddIconToBrand(StoreC, <<"a", "-", "b">>, IconC, OldSvg, "svg").assets

LocalStores == {NoAssets, StoreC, StoreCBC, StoreCPng, StoreDD, StoreTwo}

\* The tokens directory and icons.json before the run: none, or a registry that
\* an earlier run wrote for an icon the remote file no longer has.
StaleTokens ==
  BrandTokens(NoTokens, BrandA,
              <<[id |-> "0:9", name |-> IconD, description |-> <<>>, originalName |-> <<"D">>]>>)

InitialRegistries ==
  {[dir |-> FALSE, file |-> [exists |-> FALSE, icon |-> NoTokens]],
   [dir |-> TRUE,  file |-> [exists |-> TRUE,  icon |-> StaleTokens]]}

\* What the remote answers for one icon: no export URL, a failed download, a
\* download that is no vector document, or the vector content.
Outcomes ==
  {[kind |-> "NO_URL", content |-> <<>>],
   [kind |-> "NETWORK_ERROR", content |-> <<>>],
   [kind |-> "INVALID_SVG_CONTENT", content |-> <<>>],
   [kind |-> "OK", content |-> NewSvg]}

(***************************************************************************)
(* State.                                                                  *)
(***************************************************************************)

VARIABLES
  assets,        \* the assets directory (Asset Store)
  tokensDir,     \* whether the tokens directory exists
  tokens,        \* tokens/icons.json: [exists, icon]
  remote,        \* the remote file
  pc,            \* position of the sync run
  dryRun,        \* this.dryRun
  currentState,  \* the local snapshot of syncIcons
  startAssets,   \* the assets directory as the run found it
  figmaIcons,    \* the remote listing of syncIcons
  brandIdx,      \* position in Object.entries(figmaIcons)
  iconIdx,       \* position in the brand's icons
  results,       \* downloadAndSyncIcons' results
  syncStats,     \* this.syncStats
  processed,     \* the <<brand, node id>> pairs processIcon was called for, in order
  faults,        \* failed remote calls and writes so far
  runFaults,     \* those of the current run
  runs,          \* finished runs
  prev,          \* the previous run, as it ended
  tm,            \* the TokenManager: constructed or not, its calls and the last result
  bm,            \* the BrandManager: its calls and the last one, with the directory before it
  norm,          \* a name, the sanitizer applied to it, its result and the result's result
  mb,            \* the MultiBrandBuilder: its brand builds and the process working directory
  api            \* the FigmaApiService: its clock, rate limiter, calls and requests

vars == <<assets, tokensDir, tokens, remote, pc, dryRun, currentState, startAssets,
          figmaIcons,
          brandIdx, iconIdx, results, syncStats, processed, faults, runFaults, runs,
          prev, tm, bm, norm, mb, api>>

NoResults == [b \in {} |-> EmptyResults]

\* No name has been sanitized.
NoName == [fn |-> "none", input |-> <<>>, code |-> "none", out |-> <<>>,
           code2 |-> "none", out2 |-> <<>>]

\* The directory the process starts in; it holds no icon file.
StartDir == <<".">>

\* No directory.
NoDir == <<>>

\* No build() has been called.
NoBuild == [state |-> "idle", platform |-> "all", rootSvg |-> FALSE, brands |-> <<>>,
            started |-> 0, cwd |-> StartDir,
            stage |-> <<>>, orig |-> <<>>, read |-> <<>>, why |-> <<>>, exit |-> <<>>,
            snap |-> <<>>, ran |-> <<>>, pkg |-> <<>>, css |-> <<>>, glyphs |-> <<>>,
            totalIcons |-> 0, errors |-> <<>>, successCount |-> 0, ok |-> FALSE]

\* Date.now() when the process starts, in milliseconds.
StartTime == 60000

\* A FigmaApiService just constructed: lastRequestTime is 0 and no method has
\* been called.
NoApi == [clock |-> StartTime, lastRequestTime |-> 0, calls |-> 0, state |-> "idle",
          method |-> "none", fileKey |-> <<>>, nodeIds |-> <<>>, format |-> "none",
          i |-> 0, invoked |-> 0, requests |-> <<>>, statuses |-> <<>>,
          sleeps |-> <<>>, error |-> "none", waiters |-> <<>>,
          configKey |-> <<>>, configToken |-> "none",
          before |-> [assets |-> [b \in {} |-> <<>>], tokensDir |-> FALSE,
                      tokens |-> [exists |-> FALSE, icon |-> [k \in {} |-> <<>>]]]]

\* No BrandManager method has been called.
NoCall == [calls |-> 0, op |-> "none", code |-> "none", brand |-> <<>>, icon |-> <<>>,
           format |-> "none", content |-> <<>>, before |-> NoAssets, icons |-> <<>>]

\* No TokenManager has been constructed.
NoManager == [made |-> FALSE, calls |-> 0, op |-> "none", code |-> "none", key |-> <<>>,
              input |-> [kind |-> "none", entries |-> <<>>], errors |-> <<>>]

\* results[brandName] = r
PutResults(rs, brandName, r) ==
  [b \in DOMAIN rs \cup {brandName} |-> IF b = brandName THEN r ELSE rs[b]]

NoRun == [ran |-> FALSE, pc |-> "idle", dryRun |-> FALSE, currentState |-> NoAssets,
          startAssets |-> NoAssets,
          figmaIcons |-> NoIcons, results |-> NoResults, syncStats |-> EmptyStats,
          runFaults |-> 0, exit |-> 0]

Init ==
  /\ assets \in LocalStores
  /\ \E r \in InitialRegistries : tokensDir = r.dir /\ tokens = r.file
  /\ remote \in RemoteFiles
  /\ pc = "idle"
  /\ dryRun = FALSE
  /\ currentState = NoAssets
  /\ startAssets = NoAssets
  /\ figmaIcons = NoIcons
  /\ brandIdx = 0
  /\ iconIdx = 0
  /\ results = NoResults
  /\ syncStats = EmptyStats
  /\ processed = <<>>
  /\ faults = 0
  /\ runFaults = 0
  /\ runs = 0
  /\ prev = NoRun
  /\ tm = NoManager
  /\ bm = NoCall
  /\ norm = NoName
  /\ mb = NoBuild
  /\ api = NoApi

Brand == figmaIcons.order[brandIdx]
\* The brand's icons from the last of the listing to the first.
IconsReversed ==
  LET l == figmaIcons.icons[figmaIcons.order[brandIdx]]
  IN  [i \in 1..Len(l) |-> l[Len(l) + 1 - i]]

Icons == figmaIcons.icons[Brand]

Fault ==
  /\ faults < MaxFaults
  /\ faults' = faults + 1
  /\ runFaults' = runFaults + 1

NoFault == UNCHANGED <<faults, runFaults>>

\* The catch block of syncIcons.
SyncFailed(message) ==
  /\ syncStats' = [syncStats EXCEPT !.errors =
                     Append(@, [type |-> "SYNC_ERROR", message |-> message])]
  /\ pc' = "failed"

\* The constructor (validateConfiguration creates the tokens directory) and
\* syncIcons up to its first await: the local snapshot.
Started ==
  /\ pc = "idle"
  /\ runs < MaxRuns
  /\ \E d \in BOOLEAN : dryRun' = d
  /\ tokensDir' = TRUE
  /\ currentState' = BuildCurrentState(assets)
  /\ startAssets' = assets
  /\ syncStats' = EmptyStats
  /\ results' = NoResults
  /\ processed' = <<>>
  /\ figmaIcons' = NoIcons
  /\ brandIdx' = 0
  /\ iconIdx' = 0
  /\ runFaults' = 0
  /\ pc' = "fetch"
  /\ UNCHANGED <<norm, mb, bm, tm, assets, tokens, remote, faults, runs, prev>>

\* new FigmaIconSync(options) with a file key and an access token, and
\* syncIcons up to its first await.
StartSync ==
  /\ Started
  /\ UNCHANGED api

\* What syncIcons does with the listing getIconsByBrand returns.
Fetched ==
  /\ pc = "fetch"
  /\ LET fi == GetIconsByBrand(remote)
         sum[i \in 0..Len(fi.order)] ==
           IF i = 0 THEN 0 ELSE sum[i - 1] + Len(fi.icons[fi.order[i]])
     IN  /\ figmaIcons' = fi
         /\ syncStats' = [syncStats EXCEPT !.totalBrands = Len(fi.order),
                                           !.totalIcons = sum[Len(fi.order)]]
         /\ brandIdx' = 1
         /\ pc' = IF fi.order = <<>> THEN "tokens" ELSE "brand"
  /\ NoFault
  /\ UNCHANGED <<norm, mb, bm, tm, startAssets, processed, assets, tokensDir, tokens, remote, dryRun, currentState, iconIdx,
                 results, runs, prev>>

\* await this.figmaApi.getIconsByBrand(...)
FetchOk ==
  /\ Fetched
  /\ UNCHANGED api

\* What syncIcons does when getIconsByBrand throws.
FetchFailed(message) ==
  /\ pc = "fetch"
  /\ SyncFailed(message)
  /\ UNCHANGED <<norm, mb, bm, tm, startAssets, processed, assets, tokensDir, tokens, remote, dryRun, currentState, figmaIcons,
                 brandIdx, iconIdx, results, runs, prev>>

FetchFail ==
  /\ FetchFailed("GET_ICONS_BY_BRAND_ERROR")
  /\ Fault
  /\ UNCHANGED api

\* The position after a brand: the next brand, or updateTokensFile.
AfterBrand ==
  IF brandIdx < Len(figmaIcons.order)
  THEN brandIdx' = brandIdx + 1 /\ pc' = "brand"
  ELSE brandIdx' = brandIdx /\ pc' = "tokens"

\* The head of the brand loop: results[brandName], createBrand unless dry-run.
BeginBrand ==
  /\ pc = "brand"
  /\ LET c == IF dryRun THEN [code |-> "OK", assets |-> assets]
              ELSE CreateBrand(assets, Brand)
         r0 == PutResults(results, Brand, EmptyResults)
     IN  IF c.code \in {"OK", "BRAND_EXISTS"}
         THEN /\ assets' = c.assets
              /\ results' = r0
              /\ syncStats' = syncStats
              /\ brandIdx' = brandIdx
              /\ pc' = IF Len(Icons) > 0 THEN "export" ELSE "removed"
         ELSE /\ assets' = c.assets
              /\ results' = PutResults(results, Brand,
                                        [EmptyResults EXCEPT !.errors =
                                           Append(@, [brand |-> Brand, error |-> c.code])])
              /\ syncStats' = [syncStats EXCEPT !.errors =
                                 Append(@, [type |-> "BRAND_PROCESS_ERROR",
                                            brand |-> Brand, message |-> c.code])]
              /\ AfterBrand
  /\ iconIdx' = 0
  /\ NoFault
  /\ UNCHANGED <<norm, mb, bm, tm, startAssets, processed, tokensDir, tokens, api, remote, dryRun, currentState, figmaIcons, runs, prev>>

\* await this.figmaApi.exportNodes(...) succeeds.
ExportOk ==
  /\ pc = "export"
  /\ iconIdx' = 1
  /\ pc' = "icon"
  /\ NoFault
  /\ UNCHANGED <<norm, mb, bm, tm, startAssets, processed, assets, tokensDir, tokens, api, remote, dryRun, currentState, figmaIcons,
                 brandIdx, results, syncStats, runs, prev>>

\* await this.figmaApi.exportNodes(...) throws.
ExportFail ==
  /\ pc = "export"
  /\ Fault
  /\ results' = PutResults(results, Brand,
                  [results[Brand] EXCEPT !.errors =
                     Append(@, [brand |-> Brand,
                                error |-> "Failed to export icons: NETWORK_ERROR"])])
  /\ syncStats' = [syncStats EXCEPT !.errors =
                     Append(@, [type |-> "EXPORT_ERROR", brand |-> Brand,
                                message |-> "NETWORK_ERROR"])]
  /\ pc' = "removed"
  /\ UNCHANGED <<norm, mb, bm, tm, startAssets, processed, assets, tokensDir, tokens, api, remote, dryRun, currentState, figmaIcons,
                 brandIdx, iconIdx, runs, prev>>

\* One iteration of the icon loop: processIcon and the catch around it.
ProcessIconStep ==
  /\ pc = "icon"
  /\ \E o \in Outcomes :
       /\ IF o.kind = "OK" THEN NoFault ELSE Fault
       /\ LET st == ProcessIcon([assets |-> assets, res |-> results[Brand],
                                 stats |-> syncStats, threw |-> FALSE],
                                dryRun, Brand, Icons[iconIdx], o,
                                CurrentIcons(currentState, Brand))
              nx == IconLoopNext(iconIdx, Len(Icons), st.threw)
          IN  /\ assets' = st.assets
              /\ results' = PutResults(results, Brand, st.res)
              /\ syncStats' = st.stats
              /\ iconIdx' = nx.iconIdx
              /\ pc' = nx.pc
  /\ processed' = Append(processed, <<Brand, Icons[iconIdx].id>>)
  /\ UNCHANGED <<norm, mb, bm, tm, startAssets, tokensDir, tokens, api, remote, dryRun, currentState, figmaIcons,
                 brandIdx, runs, prev>>

\* await this.handleRemovedIcons(...), then the next brand.
RemovedStep ==
  /\ pc = "removed"
  /\ LET st == HandleRemovedIcons([assets |-> assets, res |-> results[Brand],
                                   stats |-> syncStats, threw |-> FALSE],
                                  dryRun, Brand, Icons, CurrentIcons(currentState, Brand))
     IN  /\ assets' = st.assets
         /\ results' = PutResults(results, Brand, st.res)
         /\ syncStats' = st.stats
  /\ AfterBrand
  /\ NoFault
  /\ UNCHANGED <<norm, mb, bm, tm, startAssets, processed, tokensDir, tokens, api, remote, dryRun, currentState, figmaIcons,
                 iconIdx, runs, prev>>

\* updateTokensFile and, when it returns, generateSyncReport.
UpdateTokensOk ==
  /\ pc = "tokens"
  /\ tokens' = TokensToWrite(dryRun, tokens, figmaIcons)
  /\ pc' = "done"
  /\ NoFault
  /\ UNCHANGED <<norm, mb, bm, tm, startAssets, processed, assets, tokensDir, api, remote, dryRun, currentState, figmaIcons, brandIdx,
                 iconIdx, results, syncStats, runs, prev>>

\* A failed write that also puts the assets directory back as the run found it.
UpdateTokensFailRollback ==
  /\ pc = "tokens"
  /\ ~dryRun
  /\ Fault
  /\ SyncFailed("UPDATE_TOKENS_ERROR")
  /\ assets' = startAssets
  /\ UNCHANGED <<norm, mb, bm, tm, startAssets, processed, tokensDir, tokens, api, remote, dryRun, currentState, figmaIcons,
                 brandIdx, iconIdx, results, runs, prev>>

\* fs.writeFileSync(tokensFile, ...) throws.
UpdateTokensFail ==
  /\ pc = "tokens"
  /\ ~dryRun
  /\ Fault
  /\ SyncFailed("UPDATE_TOKENS_ERROR")
  /\ UNCHANGED <<norm, mb, bm, tm, startAssets, processed, assets, tokensDir, tokens, api, remote, dryRun, currentState, figmaIcons,
                 brandIdx, iconIdx, results, runs, prev>>

\* What syncIcons returns when it does not throw.
SyncResult(stats, downloadResults) ==
  [success |-> TRUE, stats |-> stats, results |-> downloadResults]

\* main: process.exit(0) when the result says success, process.exit(1) when
\* it does not or when syncIcons threw.
ExitCode(threw, result) == IF threw THEN 1 ELSE IF result.success THEN 0 ELSE 1

\* The process ends; the next invocation starts from the files it left.
EndRun ==
  /\ pc \in {"done", "failed"}
  /\ prev' = [ran |-> TRUE, pc |-> pc, dryRun |-> dryRun, currentState |-> currentState,
              startAssets |-> startAssets,
              figmaIcons |-> figmaIcons, results |-> results, syncStats |-> syncStats,
              runFaults |-> runFaults,
              exit |-> ExitCode(pc = "failed", SyncResult(syncStats, results))]
  /\ runs' = runs + 1
  /\ pc' = "idle"
  /\ dryRun' = FALSE
  /\ currentState' = NoAssets
  /\ startAssets' = NoAssets
  /\ figmaIcons' = NoIcons
  /\ brandIdx' = 0
  /\ iconIdx' = 0
  /\ results' = NoResults
  /\ syncStats' = EmptyStats
  /\ processed' = <<>>
  /\ runFaults' = 0
  /\ UNCHANGED <<norm, mb, bm, tm, assets, tokensDir, tokens, api, remote, faults>>

Next ==
  \/ StartSync
  \/ FetchOk
  \/ FetchFail
  \/ BeginBrand
  \/ ExportOk
  \/ ExportFail
  \/ ProcessIconStep
  \/ RemovedStep
  \/ UpdateTokensOk
  \/ UpdateTokensFail
  \/ EndRun

Spec == Init /\ [][Next]_vars

(***************************************************************************)
(* The TokenManager (token-manager.js).  Objects are functions from field  *)
(* names to values; file times are not part of the store and lastModified  *)
(* is left out of the entries.                                             *)
(***************************************************************************)

\* { ...a, ...b }
Spread(a, b) == [k \in DOMAIN a \cup DOMAIN b |-> IF k \in DOMAIN b THEN b[k] ELSE a[k]]

NoOptions == [k \in {} |-> <<>>]

\* o[f] || fallback
OrElse(o, f, fallback) == IF f \in DOMAIN o /\ o[f] # <<>> THEN o[f] ELSE fallback

\* loadTokens().icon: a missing file reads as { icon: {} }.
LoadTokens(file) == IF file.exists THEN file.icon ELSE NoTokens

SaveTokens(icon) == [exists |-> TRUE, icon |-> icon]

\* ensureTokensDirectory: the file is created empty when it is missing.
EnsureTokensDirectory(file) == IF file.exists THEN file ELSE SaveTokens(NoTokens)

\* createTokenKey: [code, key].
CreateTokenKey(brand, iconName) ==
  IF brand = <<>> \/ iconName = <<>>
  THEN [code |-> "INVALID_TOKEN_PARAMS", key |-> <<>>]
  ELSE [code |-> "OK", key |-> brand \o <<"-">> \o iconName]

\* createTokenValue, extension defaulting to svg.
CreateTokenValue(brand, iconName, extension) ==
  brand \o <<"/">> \o iconName \o <<".">> \o extension

\* The entry addIconToken stores: its own fields, then ...options.metadata.
NewToken(brand, iconName, options) ==
  Spread([value        |-> CreateTokenValue(brand, iconName,
                             IF "extension" \in DOMAIN options THEN options.extension
                             ELSE <<"svg">>),
          type         |-> "asset",
          description  |-> OrElse(options, "description",
                                  iconName \o <<" icon for ">> \o brand),
          brand        |-> brand,
          name         |-> iconName,
          originalName |-> OrElse(options, "originalName", iconName)],
         IF "metadata" \in DOMAIN options THEN options.metadata ELSE NoOptions)

\* addIconToken: [code, key, file].
AddIconToken(file, brand, iconName, options) ==
  LET k == CreateTokenKey(brand, iconName)
      icon == LoadTokens(file)
  IN  IF k.code # "OK" THEN [code |-> k.code, key |-> <<>>, file |-> file]
      ELSE IF k.key \in DOMAIN icon
      THEN [code |-> "TOKEN_EXISTS", key |-> k.key, file |-> file]
      ELSE [code |-> "OK", key |-> k.key,
            file |-> SaveTokens(PutToken(icon, k.key, NewToken(brand, iconName, options)))]

\* updateIconToken: the current entry, the updates, then the core properties.
UpdateIconToken(file, brand, iconName, updates) ==
  LET k == CreateTokenKey(brand, iconName)
      icon == LoadTokens(file)
  IN  IF k.code # "OK" THEN [code |-> k.code, key |-> <<>>, file |-> file]
      ELSE IF k.key \notin DOMAIN icon
      THEN [code |-> "TOKEN_NOT_FOUND", key |-> k.key, file |-> file]
      ELSE [code |-> "OK", key |-> k.key,
            file |-> SaveTokens(PutToken(icon, k.key,
                       Spread(Spread(icon[k.key], updates),
                              [brand |-> brand, name |-> iconName, type |-> "asset"])))]

\* removeIconToken
RemoveIconToken(file, brand, iconName) ==
  LET k == CreateTokenKey(brand, iconName)
      icon == LoadTokens(file)
  IN  IF k.code # "OK" THEN [code |-> k.code, key |-> <<>>, file |-> file]
      ELSE IF k.key \notin DOMAIN icon
      THEN [code |-> "TOKEN_NOT_FOUND", key |-> k.key, file |-> file]
      ELSE [code |-> "OK", key |-> k.key,
            file |-> SaveTokens([j \in DOMAIN icon \ {k.key} |-> icon[j]])]

\* The entry syncWithFileSystem builds for one listed file of a brand.
FileToken(old, as, brand, f) ==
  LET key == brand \o <<"-">> \o f.name
      existing == IF key \in DOMAIN old THEN old[key] ELSE NoOptions
  IN  [value        |-> CreateTokenValue(brand, f.name, <<f.format>>),
       type         |-> "asset",
       description  |-> OrElse(existing, "description",
                               f.name \o <<" icon for ">> \o brand),
       brand        |-> brand,
       name         |-> f.name,
       originalName |-> OrElse(existing, "originalName", f.name),
       size         |-> Len(as[brand][<<f.name, f.format>>]),
       format       |-> f.format]

RECURSIVE FileTokens(_, _, _, _, _)
FileTokens(tk, old, as, brand, files) ==
  IF files = <<>> THEN tk
  ELSE FileTokens(PutToken(tk, brand \o <<"-">> \o files[1].name,
                           FileToken(old, as, brand, files[1])),
                  old, as, brand, Tail(files))

RECURSIVE StoreTokens(_, _, _, _)
StoreTokens(tk, old, as, brands) ==
  IF brands = <<>> THEN tk
  ELSE StoreTokens(FileTokens(tk, old, as, brands[1],
                              GetIconsForBrand(as, brands[1]).icons),
                   old, as, Tail(brands))

\* A rebuild that starts from the entries the file held.
SyncWithFileSystemMerging(file, as) ==
  SaveTokens(StoreTokens(LoadTokens(file), LoadTokens(file), as, SortNames(GetAllBrands(as))))

\* syncWithFileSystem: the registry rebuilt from getAllBrandIcons().
SyncWithFileSystem(file, as) ==
  SaveTokens(StoreTokens(NoTokens, LoadTokens(file), as, SortNames(GetAllBrands(as))))

\* TokenManager calls in one behaviour.
MaxTokenOps == 2

TokenBrands == {BrandA, <<>>}
TokenNames == {IconC, IconD}

OptionSets ==
  {NoOptions,
   [extension |-> <<"png">>, description |-> <<"x">>],
   [metadata |-> [size |-> 1]],
   [metadata |-> [brand |-> <<"x">>]]}

UpdateSets ==
  {[description |-> <<"u">>],
   [brand |-> <<"x">>, name |-> <<"y">>, type |-> "other"]}

\* new TokenManager(tokensDir)
NewTokenManager ==
  /\ pc = "idle"
  /\ ~tm.made
  /\ tokensDir' = TRUE
  /\ tokens' = EnsureTokensDirectory(tokens)
  /\ tm' = [tm EXCEPT !.made = TRUE]
  /\ UNCHANGED <<norm, mb, bm, assets, api, remote, pc, dryRun, currentState, startAssets, figmaIcons,
                 brandIdx, iconIdx, results, syncStats, processed, faults, runFaults,
                 runs, prev>>

\* What a call of a TokenManager method leaves behind.
TokenCall(op, r) ==
  /\ tokens' = r.file
  /\ tm' = [tm EXCEPT !.made = TRUE, !.calls = tm.calls + 1, !.op = op,
                       !.code = r.code, !.key = r.key]
  /\ UNCHANGED <<norm, mb, bm, assets, tokensDir, api, remote, pc, dryRun, currentState, startAssets,
                 figmaIcons, brandIdx, iconIdx, results, syncStats, processed, faults,
                 runFaults, runs, prev>>

CanCall == pc = "idle" /\ tm.made /\ tm.calls < MaxTokenOps

CallAddIconToken ==
  /\ CanCall
  /\ \E b \in TokenBrands, n \in TokenNames, o \in OptionSets :
       TokenCall("addIconToken", AddIconToken(tokens, b, n, o))

CallUpdateIconToken ==
  /\ CanCall
  /\ \E b \in TokenBrands, n \in TokenNames, u \in UpdateSets :
       TokenCall("updateIconToken", UpdateIconToken(tokens, b, n, u))

CallRemoveIconToken ==
  /\ CanCall
  /\ \E b \in TokenBrands, n \in TokenNames :
       TokenCall("removeIconToken", RemoveIconToken(tokens, b, n))

CallSyncWithFileSystem ==
  /\ CanCall
  /\ TokenCall("syncWithFileSystem",
               [code |-> "OK", key |-> <<>>, file |-> SyncWithFileSystem(tokens, assets)])

TokenRemotes ==
  {[pages |-> <<PageA>>, components |-> <<CompC>>],
   [pages |-> <<PageA, PageAB>>, components |-> <<CompC, CompBC>>]}

InitTokens ==
  /\ Init
  /\ assets \in {StoreC, StoreDD}
  /\ remote \in TokenRemotes

NextTokens ==
  \/ StartSync
  \/ FetchOk
  \/ FetchFail
  \/ BeginBrand
  \/ ExportOk
  \/ ExportFail
  \/ ProcessIconStep
  \/ RemovedStep
  \/ UpdateTokensOk
  \/ UpdateTokensFail
  \/ EndRun
  \/ NewTokenManager
  \/ CallAddIconToken
  \/ CallUpdateIconToken
  \/ CallRemoveIconToken
  \/ CallSyncWithFileSystem

SpecTokens == InitTokens /\ [][NextTokens]_vars

(***************************************************************************)
(* The TokenManager called on its own, over stores that earlier runs and   *)
(* addIconToBrand calls leave behind.                                      *)
(***************************************************************************)

\* Brand a with icons c and b-c, brand a-b with icon c.
StoreSharedKey == AddIconToBrand(StoreTwo, BrandA, IconBC, OldSvg, "svg").assets

InitRegistry ==
  /\ assets \in {StoreC, StoreDD, StoreSharedKey}
  /\ \E r \in InitialRegistries : tokensDir = r.dir /\ tokens = r.file
  /\ remote = [pages |-> <<PageA>>, components |-> <<>>]
  /\ pc = "idle"
  /\ dryRun = FALSE
  /\ currentState = NoAssets
  /\ startAssets = NoAssets
  /\ figmaIcons = NoIcons
  /\ brandIdx = 0
  /\ iconIdx = 0
  /\ results = NoResults
  /\ syncStats = EmptyStats
  /\ processed = <<>>
  /\ faults = 0
  /\ runFaults = 0
  /\ runs = 0
  /\ prev = NoRun
  /\ tm = NoManager
  /\ bm = NoCall
  /\ norm = NoName
  /\ mb = NoBuild
  /\ api = NoApi

NextRegistry ==
  \/ NewTokenManager
  \/ CallAddIconToken
  \/ CallUpdateIconToken
  \/ CallRemoveIconToken
  \/ CallSyncWithFileSystem

SpecRegistry == InitRegistry /\ [][NextRegistry]_vars

(***************************************************************************)
(* validateTokenStructure.  Its argument is [kind, entries]: null or no    *)
(* object, an object without an icon object, or an object whose icon holds *)
(* the entries <<key, token>> in the order of Object.entries.  A token is  *)
(* a record of the properties it has.                                      *)
(***************************************************************************)

\* !token[f]: the property is missing or an empty string.
Missing(token, f) ==
  f \notin DOMAIN token \/ (f \in {"value", "brand", "name"} /\ token[f] = <<>>)

\* The messages for the required properties a token lacks, in the order of
\* the checks.
RECURSIVE MissingMessages(_, _, _)
MissingMessages(key, token, fields) ==
  IF fields = <<>> THEN <<>>
  ELSE (IF Missing(token, fields[1])
        THEN <<[key |-> key, missing |-> fields[1]]>>
        ELSE <<>>) \o MissingMessages(key, token, Tail(fields))

\* The Object.entries(tokens.icon).forEach callback for the entries still to
\* visit: [code, errors]; createTokenKey throws out of the loop for a token
\* without brand or name.
RECURSIVE ValidateEntries(_, _)
ValidateEntries(errors, entries) ==
  IF entries = <<>> THEN [code |-> "OK", errors |-> errors]
  ELSE
    LET key   == entries[1][1]
        token == entries[1][2]
        found == errors \o MissingMessages(key, token, <<"value", "type", "brand", "name">>)
        k     == CreateTokenKey(IF "brand" \in DOMAIN token THEN token.brand ELSE <<>>,
                                IF "name" \in DOMAIN token THEN token.name ELSE <<>>)
    IN  IF k.code # "OK" THEN [code |-> k.code, errors |-> found]
        ELSE ValidateEntries(IF key # k.key
                             THEN Append(found, [key |-> key, expected |-> k.key])
                             ELSE found,
                             Tail(entries))

\* validateTokenStructure: [code, errors]; the errors are what it returns
\* when code is OK.
ValidateTokenStructure(t) ==
  IF t.kind = "null"
  THEN [code |-> "OK", errors |-> <<[key |-> <<>>, missing |-> "tokens"]>>]
  ELSE IF t.kind = "no-icon"
  THEN [code |-> "OK", errors |-> <<[key |-> <<>>, missing |-> "icon"]>>]
  ELSE ValidateEntries(<<>>, t.entries)

\* Arguments of validateTokenStructure: tokens with any of the required
\* properties left out, or with an empty brand, under a key that is or is
\* not the one of their brand and name.
TokenFields == {"value", "type", "brand", "name"}

FullToken == [value |-> <<"a", "/", "c", ".", "svg">>, type |-> "asset",
              brand |-> BrandA, name |-> IconC]

ValidatedTokens ==
  {[f \in S |-> FullToken[f]] : S \in SUBSET TokenFields}
    \cup {[FullToken EXCEPT !.brand = <<>>], [FullToken EXCEPT !.name = IconD]}

ValidatedKeys == {<<"a", "-", "c">>, <<"a", "-", "d">>}

ValidatedEntries ==
  {<<>>}
    \cup {<<<<k, t>>>> : k \in ValidatedKeys, t \in ValidatedTokens}
    \cup {<<<<<<"a", "-", "c">>, t>>, <<<<"a", "-", "d">>, u>>>> :
            t \in ValidatedTokens, u \in ValidatedTokens}

ValidatedObjects ==
  {[kind |-> "null", entries |-> <<>>], [kind |-> "no-icon", entries |-> <<>>]}
    \cup {[kind |-> "object", entries |-> e] : e \in ValidatedEntries}

CallValidateTokenStructure ==
  /\ CanCall
  /\ \E t \in ValidatedObjects :
       LET r == ValidateTokenStructure(t)
       IN  tm' = [tm EXCEPT !.calls = tm.calls + 1, !.op = "validateTokenStructure",
                            !.code = r.code, !.key = <<>>,
                            !.input = t, !.errors = r.errors]
  /\ UNCHANGED <<norm, mb, bm, assets, tokensDir, tokens, api, remote, pc, dryRun,
                 currentState, startAssets, figmaIcons, brandIdx, iconIdx, results,
                 syncStats, processed, faults, runFaults, runs, prev>>

InitValidate ==
  /\ Init
  /\ assets = NoAssets
  /\ remote = [pages |-> <<PageA>>, components |-> <<>>]
  /\ ~tokensDir

NextValidate ==
  \/ NewTokenManager
  \/ CallValidateTokenStructure

SpecValidate == InitValidate /\ [][NextValidate]_vars

(***************************************************************************)
(* The BrandManager called on its own (brand-manager.js).                  *)
(***************************************************************************)

\* BrandManager calls in one behaviour.
MaxStoreOps == 3

StoreBrands == {<<"A">>, <<"b">>, <<"-">>}
StoreIcons == {<<"c">>, <<"C", " ">>, <<"-">>, <<>>}
StoreContents == {NewSvg, PngBytes}
StoreFormats == {"svg", "png"}

CanCallStore == pc = "idle" /\ bm.calls < MaxStoreOps

\* What a call of a BrandManager method leaves behind.
StoreCall(op, r, brandName, iconName, content, format, icons) ==
  /\ assets' = r.assets
  /\ bm' = [calls |-> bm.calls + 1, op |-> op, code |-> r.code, brand |-> brandName,
            icon |-> iconName, format |-> format, content |-> content,
            before |-> assets, icons |-> icons]
  /\ UNCHANGED <<norm, mb, tm, tokensDir, tokens, api, remote, pc, dryRun, currentState, startAssets,
                 figmaIcons, brandIdx, iconIdx, results, syncStats, processed, faults,
                 runFaults, runs, prev>>

CallCreateBrand ==
  /\ CanCallStore
  /\ \E b \in StoreBrands :
       StoreCall("createBrand", CreateBrand(assets, b), b, <<>>, <<>>, "none", <<>>)

CallRemoveBrand ==
  /\ CanCallStore
  /\ \E b \in StoreBrands :
       StoreCall("removeBrand", RemoveBrand(assets, b), b, <<>>, <<>>, "none", <<>>)

CallAddIconToBrand ==
  /\ CanCallStore
  /\ \E b \in StoreBrands, n \in StoreIcons, c \in StoreContents, f \in StoreFormats :
       StoreCall("addIconToBrand", AddIconToBrand(assets, b, n, c, f), b, n, c, f, <<>>)

CallRemoveIconFromBrand ==
  /\ CanCallStore
  /\ \E b \in StoreBrands, n \in StoreIcons :
       StoreCall("removeIconFromBrand", RemoveIconFromBrand(assets, b, n),
                 b, n, <<>>, "none", <<>>)

CallGetIconsForBrand ==
  /\ CanCallStore
  /\ \E b \in StoreBrands :
       LET r == GetIconsForBrand(assets, b)
       IN  StoreCall("getIconsForBrand", [code |-> r.code, assets |-> assets],
                     b, <<>>, <<>>, "none", r.icons)

InitStore ==
  /\ Init
  /\ assets = NoAssets
  /\ remote = [pages |-> <<PageA>>, components |-> <<>>]
  /\ ~tokensDir

NextStore ==
  \/ CallCreateBrand
  \/ CallRemoveBrand
  \/ CallAddIconToBrand
  \/ CallRemoveIconFromBrand
  \/ CallGetIconsForBrand

SpecStore == InitStore /\ [][NextStore]_vars

(***************************************************************************)
(* Name normalization on its own: the sanitizers of the BrandManager, which *)
(* throw on an empty argument, and those of the FigmaApiService, which do   *)
(* not.                                                                     *)
(***************************************************************************)

\* BrandManager.sanitizeBrandName: [code, name].
SanitizeBrandName(name) ==
  IF ~ValidName(name) THEN [code |-> "INVALID_BRAND_NAME", name |-> <<>>]
  ELSE [code |-> "OK", name |-> Sanitize(name)]

\* BrandManager.sanitizeIconName: [code, name].
SanitizeIconName(name) ==
  IF ~ValidName(name) THEN [code |-> "INVALID_ICON_NAME", name |-> <<>>]
  ELSE [code |-> "OK", name |-> Sanitize(name)]

\* FigmaApiService.sanitizeBrandName / sanitizeIconName: [code, name].
ApiSanitizeBrandName(name) == [code |-> "OK", name |-> Sanitize(name)]
ApiSanitizeIconName(name) == [code |-> "OK", name |-> Sanitize(name)]

\* Longest name sanitized.
MaxNameLen == 3

NameChars == {"A", "b", "1", "-", " "}
Names == UNION {[1..n -> NameChars] : n \in 0..MaxNameLen}

\* The sanitizer applied to a name and, when that returned, to its result.
Sanitized(fn, x, r1, r2) ==
  /\ norm' = [fn |-> fn, input |-> x, code |-> r1.code, out |-> r1.name,
              code2 |-> IF r1.code = "OK" THEN r2.code ELSE "none",
              out2 |-> IF r1.code = "OK" THEN r2.name ELSE <<>>]
  /\ UNCHANGED <<assets, tokensDir, tokens, api, remote, pc, dryRun, currentState,
                 startAssets, figmaIcons, brandIdx, iconIdx, results, syncStats,
                 processed, faults, runFaults, runs, prev, tm, bm, mb>>

CallSanitizeBrandName ==
  /\ norm.fn = "none"
  /\ \E x \in Names :
    Sanitized("BrandManager.sanitizeBrandName", x, SanitizeBrandName(x),
              SanitizeBrandName(SanitizeBrandName(x).name))

CallSanitizeIconName ==
  /\ norm.fn = "none"
  /\ \E x \in Names :
    Sanitized("BrandManager.sanitizeIconName", x, SanitizeIconName(x),
              SanitizeIconName(SanitizeIconName(x).name))

CallApiSanitizeBrandName ==
  /\ norm.fn = "none"
  /\ \E x \in Names :
    Sanitized("FigmaApiService.sanitizeBrandName", x, ApiSanitizeBrandName(x),
              ApiSanitizeBrandName(ApiSanitizeBrandName(x).name))

CallApiSanitizeIconName ==
  /\ norm.fn = "none"
  /\ \E x \in Names :
    Sanitized("FigmaApiService.sanitizeIconName", x, ApiSanitizeIconName(x),
              ApiSanitizeIconName(ApiSanitizeIconName(x).name))

NextNames ==
  \/ CallSanitizeBrandName
  \/ CallSanitizeIconName
  \/ CallApiSanitizeBrandName
  \/ CallApiSanitizeIconName

InitNames ==
  /\ Init
  /\ assets = NoAssets
  /\ remote = [pages |-> <<PageA>>, components |-> <<>>]
  /\ ~tokensDir

SpecNames == InitNames /\ [][NextNames]_vars

(***************************************************************************)
(* Multi-brand build (MultiBrandBuilder).  One build() call fans out one   *)
(* buildBrand per brand; the brand builds share the process, and with it   *)
(* the process working directory.  A directory is named by the brand       *)
(* directory's name; brand builds are numbered by their place in           *)
(* brandsToProcess.                                                        *)
(***************************************************************************)

\* s with its i-th element replaced by v.
SetAt(s, i, v) == [j \in 1..Len(s) |-> IF j = i THEN v ELSE s[j]]

\* this.platform: which of the stages after Style Dictionary a build runs.
Platforms == {"all", "svg", "png", "font", "webcomponent"}

\* files: '*.svg' resolved in directory d: does it match a file?  Dot-files
\* are not matched; rootSvg tells whether the start directory holds an svg.
HasSvg(as, d, rootSvg) ==
  IF d = StartDir THEN rootSvg
  ELSE d \in DOMAIN as /\ \E f \in DOMAIN as[d] : f[2] = "svg" /\ f[1] # <<>>

\* All orders in which readdirSync may list the directories S.
Orders(S) ==
  {s \in [1..Cardinality(S) -> S] : \A i, j \in 1..Cardinality(S) : s[i] = s[j] => i = j}

\* getIconCount: the length of the listing, 0 when it fails.
GetIconCount(as, brandName) == Len(GetIconsForBrand(as, brandName).icons)

\* getBrandsToProcess: options.brands when given, else the brands that have
\* icons, in directory order.
GetBrandsToProcess(as, brands) ==
  IF Len(brands) > 0 THEN {brands}
  ELSE Orders({b \in GetAllBrands(as) : GetIconCount(as, b) > 0})

\* validateSetup: an empty registry is written when icons.json is missing.
ValidateSetup ==
  /\ tokensDir' = TRUE
  /\ tokens' = IF tokens.exists THEN tokens ELSE [exists |-> TRUE, icon |-> NoTokens]

\* One settled or pending promise per brand.
Settled(m, i) == m.stage[i] \in {"fulfilled", "rejected"}

\* Brand build i throws err: buildBrand logs and rethrows, the promise rejects.
Reject(m, i, err) ==
  [m EXCEPT !.stage = SetAt(m.stage, i, "rejected"), !.why = SetAt(m.why, i, err)]

\* Stage name starts in brand build i.
Ran(m, i, name) == [m EXCEPT !.ran = SetAt(m.ran, i, Append(m.ran[i], name))]

\* No package.json.
NoPackage == [written |-> FALSE, org |-> "none", brand |-> <<>>, iconCount |-> 0]

\* generatePackageJson: the name is @your-org/icons-<brand>, metadata.iconCount
\* the length of the icon list it is given.
GeneratePackageJson(brandName, icons) ==
  [written |-> TRUE, org |-> "your-org", brand |-> brandName, iconCount |-> Len(icons)]

\* generateWebComponents when selected, generatePackageJson, and buildBrand
\* returns.
Complete(m, i) ==
  LET w == IF m.platform \in {"all", "webcomponent"} THEN Ran(m, i, "webcomponent") ELSE m
      p == Ran(w, i, "package")
  IN  [p EXCEPT !.stage = SetAt(m.stage, i, "fulfilled"),
                !.pkg = SetAt(m.pkg, i, GeneratePackageJson(m.brands[i], m.snap[i]))]

\* generateFontFiles up to the await: the working directory is remembered and
\* changed to the brand's asset directory, and webfont is called.
EnterFont(m, i) ==
  [Ran(m, i, "font") EXCEPT !.stage = SetAt(m.stage, i, "font"),
            !.orig = SetAt(m.orig, i, m.cwd),
            !.cwd = GetBrandDirectory(m.brands[i])]

\* startUnicode: 0xe000.
startUnicode == 57344

\* The one svg file of the start directory, when it holds one.
RootIcon == <<"r">>

\* The glyphs of the font webfont compiles from files: '*.svg' in directory d,
\* in the order of their code points startUnicode, startUnicode + 1, ...:
\* the matched files sorted by name.
Glyphs(as, d, rootSvg) ==
  IF d = StartDir THEN (IF rootSvg THEN <<RootIcon>> ELSE <<>>)
  ELSE IF d \notin DOMAIN as THEN <<>>
  ELSE LET files == SortFiles({f \in DOMAIN as[d] : f[2] = "svg" /\ f[1] # <<>>})
       IN  [g \in 1..Len(files) |-> files[g].name]

\* cssClasses: icons.map((icon, index) => .icon-<name> with content
\* 0xe000 + index), index counted from 0 over the whole icon list.
CssClasses(icons) ==
  [k \in 1..Len(icons) |-> [name |-> icons[k].name, code |-> startUnicode + (k - 1)]]

\* The stages of buildBrand after generatePNGFiles.
AfterPng(m, i) ==
  IF m.platform \in {"all", "font"} THEN EnterFont(m, i) ELSE Complete(m, i)

\* The stages of buildBrand after buildStyleDictionary: generateSVGFiles
\* copies the files, generatePNGFiles awaits the rasterizer.
AfterStyles(m, i) ==
  LET v == IF m.platform \in {"all", "svg"} THEN Ran(m, i, "svg") ELSE m
  IN  IF m.platform \in {"all", "png"}
      THEN [Ran(v, i, "png") EXCEPT !.stage = SetAt(m.stage, i, "png")]
      ELSE AfterPng(v, i)

BuildUnchanged ==
  UNCHANGED <<norm, bm, tm, assets, api, remote, pc, dryRun, currentState, startAssets,
              figmaIcons, brandIdx, iconIdx, results, syncStats, processed, runs, prev>>

BuildStep(m) == mb' = m /\ UNCHANGED <<tokensDir, tokens>> /\ BuildUnchanged

\* Every buildBrand call of the map has run up to its first await.
AllStarted == mb.state = "running" /\ mb.started = Len(mb.brands)

\* Inputs of build(): the stores, options.brands and the start directory.
BrandB == <<"b">>
StoreSvgSvg == AddIconToBrand(StoreC, BrandB, IconD, OldSvg, "svg").assets
StoreSvgPng == AddIconToBrand(StoreC, BrandB, IconC, PngBytes, "png").assets
StoreSvgNone == CreateBrand(StoreC, BrandB).assets
StoreMixed == AddIconToBrand(AddIconToBrand(NoAssets, BrandA, IconD, OldSvg, "svg").assets,
                             BrandA, IconC, PngBytes, "png").assets
BuildStores == {NoAssets, StoreSvgSvg, StoreSvgPng, StoreSvgNone, StoreMixed}

BrandOptions ==
  {<<>>, <<BrandA, BrandB>>, <<BrandB, BrandA>>, <<<<"A">>>>, <<BrandA, <<"-">>>>}

\* build(): loadDependencies, validateSetup, getBrandsToProcess, and the
\* bookkeeping before brandsToProcess.map.
StartBuild ==
  /\ pc = "idle"
  /\ mb.state = "idle"
  /\ ValidateSetup
  /\ \E platform \in Platforms, brands \in BrandOptions, rootSvg \in BOOLEAN :
       \E todo \in GetBrandsToProcess(assets, brands) :
         LET n == Len(todo)
         IN  mb' = [mb EXCEPT !.state = IF n = 0 THEN "done" ELSE "running",
                              !.platform = platform,
                              !.rootSvg = rootSvg,
                              !.brands = todo,
                              !.stage = [i \in 1..n |-> "new"],
                              !.orig = [i \in 1..n |-> NoDir],
                              !.read = [i \in 1..n |-> NoDir],
                              !.exit = [i \in 1..n |-> NoDir],
                              !.snap = [i \in 1..n |-> <<>>],
                              !.ran = [i \in 1..n |-> <<>>],
                              !.pkg = [i \in 1..n |-> NoPackage],
                              !.css = [i \in 1..n |-> <<>>],
                              !.glyphs = [i \in 1..n |-> <<>>],
                              !.why = [i \in 1..n |-> "none"]]
  /\ NoFault
  /\ BuildUnchanged

\* build() when loadDependencies throws: the catch returns false.
StartBuildFail ==
  /\ pc = "idle"
  /\ mb.state = "idle"
  /\ Fault
  /\ mb' = [mb EXCEPT !.state = "done"]
  /\ UNCHANGED <<tokensDir, tokens>>
  /\ BuildUnchanged

\* brandsToProcess.map(brand => this.buildBrand(brand)): buildBrand runs to
\* its first await (the Style Dictionary build), or returns or throws before.
BuildBrandStart ==
  /\ mb.state = "running"
  /\ mb.started < Len(mb.brands)
  /\ LET i == mb.started + 1
         r == GetIconsForBrand(assets, mb.brands[i])
         m == [mb EXCEPT !.started = i]
     IN  BuildStep(IF r.code # "OK" THEN Reject(m, i, r.code)
                   ELSE IF Len(r.icons) = 0
                   THEN [m EXCEPT !.stage = SetAt(m.stage, i, "fulfilled"),
                                  !.why = SetAt(m.why, i, "NO_ICONS")]
                   ELSE [m EXCEPT !.totalIcons = m.totalIcons + Len(r.icons),
                                  !.snap = SetAt(m.snap, i, r.icons),
                                  !.ran = SetAt(m.ran, i, <<"styles">>),
                                  !.stage = SetAt(m.stage, i, "styles")])
  /\ NoFault

\* await sd.buildAllPlatforms() resolves; the build goes on to its next stage.
StylesDone ==
  /\ AllStarted
  /\ \E i \in 1..Len(mb.brands) :
       /\ mb.stage[i] = "styles"
       /\ BuildStep(AfterStyles(mb, i))
  /\ NoFault

\* Style Dictionary throws.
StylesFail ==
  /\ AllStarted
  /\ \E i \in 1..Len(mb.brands) :
       /\ mb.stage[i] = "styles"
       /\ BuildStep(Reject(mb, i, "STYLES_ERROR"))
  /\ Fault

\* generatePNGFiles returns.
PngDone ==
  /\ AllStarted
  /\ \E i \in 1..Len(mb.brands) :
       /\ mb.stage[i] = "png"
       /\ BuildStep(AfterPng(mb, i))
  /\ NoFault

\* The rasterizer throws.
PngFail ==
  /\ AllStarted
  /\ \E i \in 1..Len(mb.brands) :
       /\ mb.stage[i] = "png"
       /\ BuildStep(Reject(mb, i, "PNG_ERROR"))
  /\ Fault

\* webfont, in flight, resolves files: '*.svg' against the working directory
\* of that moment.
FontGlob ==
  /\ AllStarted
  /\ \E i \in 1..Len(mb.brands) :
       /\ mb.stage[i] = "font"
       /\ mb.read[i] = NoDir
       /\ BuildStep([mb EXCEPT !.read = SetAt(mb.read, i, mb.cwd)])
  /\ NoFault

\* await this.webfont(...) resolves: process.chdir(originalCwd), the font and
\* CSS files are written, and the build runs its last stages.
FontReturn ==
  /\ AllStarted
  /\ \E i \in 1..Len(mb.brands) :
       /\ mb.stage[i] = "font"
       /\ mb.read[i] # NoDir
       /\ HasSvg(assets, mb.read[i], mb.rootSvg)
       /\ BuildStep([Complete(mb, i) EXCEPT
                      !.cwd = mb.orig[i],
                      !.exit = SetAt(mb.exit, i, mb.orig[i]),
                      !.glyphs = SetAt(mb.glyphs, i, Glyphs(assets, mb.read[i], mb.rootSvg)),
                      !.css = SetAt(mb.css, i, CssClasses(mb.snap[i]))])
  /\ NoFault

\* await this.webfont(...) rejects because the pattern matched no file: the
\* catch logs and rethrows; no statement restores the working directory.
FontThrowNoFiles ==
  /\ AllStarted
  /\ \E i \in 1..Len(mb.brands) :
       /\ mb.stage[i] = "font"
       /\ mb.read[i] # NoDir
       /\ ~HasSvg(assets, mb.read[i], mb.rootSvg)
       /\ BuildStep([Reject(mb, i, "NO_FILES") EXCEPT !.exit = SetAt(mb.exit, i, mb.cwd)])
  /\ NoFault

\* await this.webfont(...) rejects for another reason (a file it cannot
\* compile).
FontThrow ==
  /\ AllStarted
  /\ \E i \in 1..Len(mb.brands) :
       /\ mb.stage[i] = "font"
       /\ BuildStep([Reject(mb, i, "FONT_ERROR") EXCEPT !.exit = SetAt(mb.exit, i, mb.cwd)])
  /\ Fault

\* results.forEach: the successes are counted and the failures recorded.
RECURSIVE BuildErrors(_, _)
BuildErrors(m, i) ==
  IF i > Len(m.brands) THEN <<>>
  ELSE (IF m.stage[i] = "rejected"
        THEN <<[brand |-> m.brands[i], error |-> m.why[i]]>>
        ELSE <<>>) \o BuildErrors(m, i + 1)

\* A count of the settled promises, whatever their status.
SuccessCountSettled(m) == Cardinality({i \in 1..Len(m.brands) : Settled(m, i)})

SuccessCount(m) == Cardinality({i \in 1..Len(m.brands) : m.stage[i] = "fulfilled"})

\* await Promise.allSettled(buildPromises) resolves; build() reports and
\* returns successCount === brandsToProcess.length.
Report ==
  /\ AllStarted
  /\ \A i \in 1..Len(mb.brands) : Settled(mb, i)
  /\ BuildStep([mb EXCEPT !.state = "done",
                          !.errors = BuildErrors(mb, 1),
                          !.successCount = SuccessCount(mb),
                          !.ok = SuccessCount(mb) = Len(mb.brands)])
  /\ NoFault

InitBuild ==
  /\ assets \in BuildStores
  /\ \E r \in InitialRegistries : tokensDir = r.dir /\ tokens = r.file
  /\ remote = [pages |-> <<PageA>>, components |-> <<>>]
  /\ pc = "idle"
  /\ dryRun = FALSE
  /\ currentState = NoAssets
  /\ startAssets = NoAssets
  /\ figmaIcons = NoIcons
  /\ brandIdx = 0
  /\ iconIdx = 0
  /\ results = NoResults
  /\ syncStats = EmptyStats
  /\ processed = <<>>
  /\ faults = 0
  /\ runFaults = 0
  /\ runs = 0
  /\ prev = NoRun
  /\ tm = NoManager
  /\ bm = NoCall
  /\ norm = NoName
  /\ mb = NoBuild
  /\ api = NoApi

NextBuild ==
  \/ StartBuild
  \/ StartBuildFail
  \/ BuildBrandStart
  \/ StylesDone
  \/ StylesFail
  \/ PngDone
  \/ PngFail
  \/ FontGlob
  \/ FontReturn
  \/ FontThrowNoFiles
  \/ FontThrow
  \/ Report

SpecBuild == InitBuild /\ [][NextBuild]_vars

(***************************************************************************)
(* Remote adapter (FigmaApiService): argument validation, the retry loop   *)
(* and the rate limiter.  Times are in milliseconds.                       *)
(***************************************************************************)

\* /^[a-zA-Z0-9]{22}$/
FileKeyLength == 22

IsKeyChar(c) == IsAlnum(ToLowerCase(c))

\* validateFileKey: the code it throws, or "OK".
ValidateFileKey(fileKey) ==
  IF fileKey = <<>> THEN "INVALID_FILE_KEY"
  ELSE IF Len(fileKey) = FileKeyLength /\ \A k \in 1..Len(fileKey) : IsKeyChar(fileKey[k])
  THEN "OK"
  ELSE "INVALID_FILE_KEY_FORMAT"

\* A validation of exportNodes that accepts every format.
ValidateExportAnyFormat(fileKey, nodeIds, format) ==
  IF ValidateFileKey(fileKey) # "OK" THEN ValidateFileKey(fileKey)
  ELSE IF Len(nodeIds) = 0 THEN "INVALID_NODE_IDS"
  ELSE "OK"

validFormats == {"svg", "png", "jpg", "pdf"}

\* exportNodes before its request: file key, node ids, format, in this order.
ValidateExport(fileKey, nodeIds, format) ==
  IF ValidateFileKey(fileKey) # "OK" THEN ValidateFileKey(fileKey)
  ELSE IF Len(nodeIds) = 0 THEN "INVALID_NODE_IDS"
  ELSE IF format \notin validFormats THEN "INVALID_FORMAT"
  ELSE "OK"

\* What each method checks before it calls retryRequest.  downloadSvg takes
\* a URL (here the file key argument) and a filename (here the node ids).
ValidateCall(method, fileKey, nodeIds, format) ==
  CASE method \in {"getFile", "getFileComponents"} -> ValidateFileKey(fileKey)
    [] method = "getFileNodes" ->
         IF ValidateFileKey(fileKey) # "OK" THEN ValidateFileKey(fileKey)
         ELSE IF Len(nodeIds) = 0 THEN "INVALID_NODE_IDS" ELSE "OK"
    [] method = "exportNodes" -> ValidateExport(fileKey, nodeIds, format)
    [] OTHER -> IF fileKey = <<>> \/ nodeIds = <<>> THEN "MISSING_DOWNLOAD_PARAMS" ELSE "OK"

\* The methods whose request goes through this.client and its interceptors;
\* downloadSvg calls axios.get directly.
UsesClient(method) == method # "downloadSvg"

\* this.retryAttempts, this.retryDelay and this.rateLimit as the Synchronizer
\* constructs the service.
retryAttempts == 3
retryDelay == 1000
rateLimit == 100

\* const minInterval = 60000 / this.rateLimit
MinInterval == 60000 \div rateLimit

\* rateLimitRequest: how long it sleeps when entered at `now`.
RateLimitDelay(now, last) ==
  IF now - last < MinInterval THEN MinInterval - (now - last) ELSE 0

\* A backoff that does not grow.
BackoffDelayConstant(i) == retryDelay

\* this.retryDelay * Math.pow(2, i)
BackoffDelay(i) == retryDelay * 2^i

\* The code of the error the request function throws for a response: the
\* response interceptor of this.client makes HTTP_<status> or NETWORK_ERROR;
\* a direct axios.get rejects with the library's own error.
ErrorCode(method, status) ==
  IF UsesClient(method)
  THEN (IF status = "none" THEN "NETWORK_ERROR" ELSE "HTTP_" \o status)
  ELSE (CASE status = "none" -> "ERR_NETWORK"
          [] status = "500" -> "ERR_BAD_RESPONSE"
          [] status = "200" -> "INVALID_SVG_CONTENT"
          [] OTHER -> "ERR_BAD_REQUEST")

\* The catch of retryRequest at attempt i: rethrow, or sleep and go on.
Rethrows(i, attempts, code) ==
  i = attempts - 1 \/ code \in {"HTTP_401", "HTTP_403"}

\* Inputs of the adapter's methods and the answers of the network.
MaxApiCalls == 1
GoodKey == [k \in 1..FileKeyLength |-> IF k = 1 THEN "A" ELSE "1"]
FileKeys == {<<>>, GoodKey, Tail(GoodKey), [GoodKey EXCEPT ![2] = "-"]}
NodeIdLists == {<<>>, <<"1:1">>}
Formats == {"svg", "gif"}
Methods == {"getFile", "getFileComponents", "getFileNodes", "exportNodes", "downloadSvg"}
Statuses == {"200", "401", "403", "500", "none"}
Latencies == {100, 700}

ApiUnchanged ==
  UNCHANGED <<assets, tokensDir, tokens, remote, pc, dryRun, currentState, startAssets,
              figmaIcons, brandIdx, iconIdx, results, syncStats, processed, faults,
              runFaults, runs, prev, tm, bm, norm, mb>>

\* A method is called: its argument checks, and retryRequest entered at i = 0
\* when they pass.
ApiCall ==
  /\ api.state \in {"idle", "returned", "thrown"}
  /\ api.calls < MaxApiCalls
  /\ \E method \in Methods, fileKey \in FileKeys, nodeIds \in NodeIdLists, format \in Formats :
       LET code == ValidateCall(method, fileKey, nodeIds, format)
       IN  api' = [api EXCEPT !.calls = api.calls + 1,
                              !.method = method, !.fileKey = fileKey,
                              !.nodeIds = nodeIds, !.format = format,
                              !.state = IF code = "OK" THEN "attempt" ELSE "thrown",
                              !.error = IF code = "OK" THEN "none" ELSE code,
                              !.i = 0, !.invoked = 0, !.requests = <<>>,
                              !.statuses = <<>>, !.sleeps = <<>>]
  /\ ApiUnchanged

\* requestFn through this.client: the request interceptor runs
\* rateLimitRequest (sleeping if it must, then setting lastRequestTime), and
\* the request is sent.
ClientRequest ==
  /\ api.state = "attempt"
  /\ UsesClient(api.method)
  /\ LET now == api.clock + RateLimitDelay(api.clock, api.lastRequestTime)
     IN  api' = [api EXCEPT !.clock = now,
                            !.lastRequestTime = now,
                            !.invoked = api.invoked + 1,
                            !.requests = Append(api.requests,
                                           [limited |-> TRUE, at |-> now,
                                            last |-> now]),
                            !.state = "waiting"]
  /\ ApiUnchanged

\* requestFn of downloadSvg: axios.get(url, ...) on the library itself.
BareRequest ==
  /\ api.state = "attempt"
  /\ ~UsesClient(api.method)
  /\ api' = [api EXCEPT !.invoked = api.invoked + 1,
                        !.requests = Append(api.requests,
                                       [limited |-> FALSE, at |-> api.clock,
                                        last |-> api.lastRequestTime]),
                        !.state = "waiting"]
  /\ ApiUnchanged

\* The response arrives and requestFn returns: retryRequest returns.  A
\* download is returned when it holds '<svg'.
RespondOk ==
  /\ api.state = "waiting"
  /\ \E ms \in Latencies :
       api' = [api EXCEPT !.clock = api.clock + ms,
                          !.statuses = Append(api.statuses, "200"),
                          !.state = "returned"]
  /\ ApiUnchanged

\* requestFn throws: an error response, no response, or a download without
\* '<svg'.  The catch rethrows or starts the backoff sleep.
RespondError ==
  /\ api.state = "waiting"
  /\ \E ms \in Latencies, status \in Statuses :
       /\ status = "200" => ~UsesClient(api.method)
       /\ LET code == ErrorCode(api.method, status)
              out == Rethrows(api.i, retryAttempts, code)
          IN  api' = [api EXCEPT !.clock = api.clock + ms,
                                 !.statuses = Append(api.statuses, status),
                                 !.error = code,
                                 !.sleeps = IF out THEN api.sleeps
                                            ELSE Append(api.sleeps, BackoffDelay(api.i)),
                                 !.state = IF out THEN "thrown" ELSE "backoff"]
  /\ ApiUnchanged

\* await this.sleep(delay) resolves and the loop goes to its next attempt.
BackoffDone ==
  /\ api.state = "backoff"
  /\ api' = [api EXCEPT !.clock = api.clock + api.sleeps[Len(api.sleeps)],
                        !.i = api.i + 1,
                        !.state = "attempt"]
  /\ ApiUnchanged

InitApi == InitNames

NextApi ==
  \/ ApiCall
  \/ ClientRequest
  \/ BareRequest
  \/ RespondOk
  \/ RespondError
  \/ BackoffDone

SpecApi == InitApi /\ [][NextApi]_vars

\* Every await of a call resolves: requests carry a timeout and sleeps are
\* timers.
SpecApiFair ==
  SpecApi /\ WF_vars(ClientRequest) /\ WF_vars(BareRequest)
          /\ WF_vars(RespondOk \/ RespondError) /\ WF_vars(BackoffDone)

\* Concurrent requests in rateLimitRequest: each caller is new, sleeping
\* until its wake time, or released.  The clock advances in steps.
MaxWaiters == 3
MaxTicks == 4
TickMs == 300

\* A caller enters rateLimitRequest: it reads the clock and lastRequestTime,
\* and either goes to sleep or sets lastRequestTime and is released.
LimiterEnter ==
  /\ Len(api.waiters) < MaxWaiters
  /\ LET delay == RateLimitDelay(api.clock, api.lastRequestTime)
     IN  api' = [api EXCEPT
                   !.waiters = Append(api.waiters,
                                 [state |-> IF delay > 0 THEN "sleeping" ELSE "released",
                                  wake |-> api.clock + delay,
                                  at |-> IF delay > 0 THEN 0 ELSE api.clock]),
                   !.lastRequestTime = IF delay > 0 THEN api.lastRequestTime ELSE api.clock]
  /\ ApiUnchanged

\* The timer of a sleeping caller fires: this.lastRequestTime = Date.now().
LimiterWake ==
  /\ \E w \in 1..Len(api.waiters) :
       /\ api.waiters[w].state = "sleeping"
       /\ api.clock >= api.waiters[w].wake
       /\ api' = [api EXCEPT
                    !.waiters = [v \in 1..Len(api.waiters) |->
                                   IF v = w
                                   THEN [state |-> "released", wake |-> api.waiters[w].wake,
                                         at |-> api.clock]
                                   ELSE api.waiters[v]],
                    !.lastRequestTime = api.clock]
  /\ ApiUnchanged

\* Time passes.
Tick ==
  /\ api.clock < StartTime + MaxTicks * TickMs
  /\ api' = [api EXCEPT !.clock = api.clock + TickMs]
  /\ ApiUnchanged

NextLimiter ==
  \/ LimiterEnter
  \/ LimiterWake
  \/ Tick

SpecLimiter == InitApi /\ [][NextLimiter]_vars

(***************************************************************************)
(* The synchronizer started with any configuration: the file key and the   *)
(* access token may be missing or malformed.  api.requests holds the       *)
(* requests of getIconsByBrand, api.before the files as the process found  *)
(* them.                                                                    *)
(***************************************************************************)

ConfigKeys == {<<>>, Tail(GoodKey), GoodKey}
ConfigTokens == {"missing", "malformed", "valid"}

Configured(key, token) ==
  [api EXCEPT !.configKey = key, !.configToken = token, !.requests = <<>>,
              !.before = [assets |-> assets, tokensDir |-> tokensDir, tokens |-> tokens]]

\* One request of getIconsByBrand is sent.
Requested(a) ==
  [a EXCEPT !.requests = Append(a.requests,
                           [limited |-> TRUE, at |-> a.clock, last |-> a.clock])]

\* new FigmaIconSync(options): validateConfiguration throws MISSING_FILE_KEY
\* or MISSING_ACCESS_TOKEN, and main exits with 1.
ConfigRejected ==
  /\ pc = "idle"
  /\ runs < MaxRuns
  /\ \E key \in ConfigKeys, token \in ConfigTokens :
       /\ key = <<>> \/ token = "missing"
       /\ api' = Configured(key, token)
  /\ pc' = "failed"
  /\ UNCHANGED <<assets, tokensDir, tokens, remote, dryRun, currentState, startAssets,
                 figmaIcons, brandIdx, iconIdx, results, syncStats, processed, faults,
                 runFaults, runs, prev, tm, bm, norm, mb>>

\* new FigmaIconSync(options) with a key and a token of any form: the
\* constructor returns and syncIcons runs up to its first await.
ConfigAccepted ==
  /\ Started
  /\ \E key \in ConfigKeys \ {<<>>}, token \in ConfigTokens \ {"missing"} :
       api' = Configured(key, token)

\* getIconsByBrand: getFile throws in validateFileKey.
ConfigFetchInvalidKey ==
  /\ ValidateFileKey(api.configKey) # "OK"
  /\ FetchFailed("GET_ICONS_BY_BRAND_ERROR")
  /\ NoFault
  /\ UNCHANGED api

\* getIconsByBrand: the request of getFile is sent and answered with 403.
ConfigFetchDenied ==
  /\ ValidateFileKey(api.configKey) = "OK"
  /\ api.configToken = "malformed"
  /\ FetchFailed("GET_ICONS_BY_BRAND_ERROR")
  /\ NoFault
  /\ api' = Requested(api)

\* getIconsByBrand: getFile and getFileComponents are answered.
ConfigFetchOk ==
  /\ ValidateFileKey(api.configKey) = "OK"
  /\ api.configToken = "valid"
  /\ Fetched
  /\ api' = Requested(Requested(api))

\* getIconsByBrand: a request fails after its retries.
ConfigFetchFail ==
  /\ ValidateFileKey(api.configKey) = "OK"
  /\ api.configToken = "valid"
  /\ FetchFailed("GET_ICONS_BY_BRAND_ERROR")
  /\ Fault
  /\ api' = Requested(api)

InitConfig ==
  /\ Init
  /\ assets \in {NoAssets, StoreC}
  /\ remote \in {[pages |-> <<PageA>>, components |-> <<CompC>>],
                  [pages |-> <<PageBlank, PageA>>, components |-> <<CompC>>]}

NextConfig ==
  \/ ConfigRejected
  \/ ConfigAccepted
  \/ ConfigFetchInvalidKey
  \/ ConfigFetchDenied
  \/ ConfigFetchOk
  \/ ConfigFetchFail
  \/ BeginBrand
  \/ ExportOk
  \/ ExportFail
  \/ ProcessIconStep
  \/ RemovedStep
  \/ UpdateTokensOk
  \/ UpdateTokensFail
  \/ EndRun

SpecConfig == InitConfig /\ [][NextConfig]_vars

(***************************************************************************)
(* Properties of the synchronizer.                                         *)
(***************************************************************************)

RemoteBrands == DOMAIN figmaIcons.icons

RemoteNames(b) == {figmaIcons.icons[b][i].name : i \in 1..Len(figmaIcons.icons[b])}

NamesOf(entries) == {entries[i].name : i \in 1..Len(entries)}

\* listIcons(brand), as the sequence of its entries' names.
ListIcons(as, b) ==
  LET r == GetIconsForBrand(as, b)
  IN  [i \in 1..Len(r.icons) |-> r.icons[i].name]

\* Every brand and icon name of the remote listing is a non-empty name.
WellNamed ==
  \A b \in RemoteBrands : b # <<>> /\ \A n \in RemoteNames(b) : n # <<>>

\* Every icon file of the directory is a vector file.
SvgOnly(as) == \A b \in DOMAIN as : \A f \in DOMAIN as[b] : f[2] = "svg"

\* An apply run over a directory of vector files that has completed with no
\* failed remote call.
CleanApplyDone == pc = "done" /\ ~dryRun /\ runFaults = 0 /\ SvgOnly(startAssets)

\* C1: after an apply run in which every remote call succeeded, listIcons(B)
\* is exactly the remote names of B, sorted ascending, for every remote brand B.
C1_ListingEqualsRemote ==
  (CleanApplyDone /\ WellNamed) =>
    \A b \in RemoteBrands :
      /\ GetIconsForBrand(assets, b).code = "OK"
      /\ ListIcons(assets, b) = SortNames(RemoteNames(b))

\* The file name.svg of a brand exists, so that addIconToBrand fails with
\* ICON_EXISTS.
SvgExists(as, b, n) ==
  /\ b \in DOMAIN as
  /\ <<n, "svg">> \in DOMAIN as[b]

\* C2: when addIconToBrand fails with ICON_EXISTS in an apply run, processIcon
\* leaves the icon in the store with the downloaded content, records it as
\* updated and records no error.
C2_IconExistsForcesUpdate ==
  [][(/\ pc = "icon"
      /\ ~dryRun
      /\ faults' = faults
      /\ Icons[iconIdx].name # <<>>
      /\ SvgExists(assets, Brand, Icons[iconIdx].name))
     => (/\ SvgExists(assets', Brand, Icons[iconIdx].name)
         /\ assets'[Brand][<<Icons[iconIdx].name, "svg">>] = NewSvg
         /\ results'[Brand].updated =
              Append(results[Brand].updated, Classified(Icons[iconIdx], "updated"))
         /\ results'[Brand].errors = results[Brand].errors
         /\ syncStats'.errors = syncStats.errors)]_vars

\* C3: with every remote call succeeding, a finished run reports for each
\* remote brand the remote names absent from the snapshot as added, the remote
\* names present in it as updated and the snapshot names absent from the remote
\* listing as removed (three disjoint sets).
C3_ClassificationBySnapshot ==
  (pc = "done" /\ runFaults = 0 /\ WellNamed /\ SvgOnly(startAssets)) =>
    \A b \in RemoteBrands :
      /\ b \in DOMAIN results
      /\ NamesOf(results[b].added) = RemoteNames(b) \ CurrentIcons(currentState, b)
      /\ NamesOf(results[b].updated) = RemoteNames(b) \cap CurrentIcons(currentState, b)
      /\ NamesOf(results[b].removed) = CurrentIcons(currentState, b) \ RemoteNames(b)

C5_PreviewPredictsApply ==
  (/\ CleanApplyDone
   /\ WellNamed
   /\ prev.ran /\ prev.dryRun /\ prev.pc = "done" /\ prev.runFaults = 0)
  => \A b \in RemoteBrands :
       /\ NamesOf(results[b].added) = NamesOf(prev.results[b].added)
       /\ NamesOf(results[b].updated) = NamesOf(prev.results[b].updated)
       /\ NamesOf(results[b].removed) = NamesOf(prev.results[b].removed)

\* C6: a second apply run against the unchanged remote file, after a first
\* apply run completed, reports no icon as added, none as removed and every
\* remote icon as updated.
C6_SecondRunOnlyUpdates ==
  (/\ CleanApplyDone
   /\ WellNamed
   /\ prev.ran /\ ~prev.dryRun /\ prev.pc = "done" /\ prev.runFaults = 0
   /\ SvgOnly(prev.startAssets))
  => \A b \in RemoteBrands :
       /\ results[b].added = <<>>
       /\ results[b].removed = <<>>
       /\ NamesOf(results[b].updated) = RemoteNames(b)

\* The entries of a brand's errors that were recorded for the brand as a whole
\* (createBrand or exportNodes failed), and those recorded for one icon.
BrandErrors(b) == {i \in 1..Len(results[b].errors) : "brand" \in DOMAIN results[b].errors[i]}
IconErrors(b) == {i \in 1..Len(results[b].errors) : "icon" \in DOMAIN results[b].errors[i]}

\* The icons of brand b that processIcon was called for.
ProcessedOf(b) == {i \in 1..Len(processed) : processed[i][1] = b}

LastError == syncStats.errors[Len(syncStats.errors)]

\* C7: once the brand loop is over, every remote brand has its results, and
\* unless a failure of the brand as a whole is recorded for it, processIcon was
\* called for each of its icons and each icon is recorded as added, updated or
\* failed; the run fails as a whole only when the remote listing or the
\* registry write failed, otherwise it ends with its report.
C7_FailureIsolation ==
  /\ pc \in {"tokens", "done"} =>
       \A b \in RemoteBrands :
         /\ b \in DOMAIN results
         /\ BrandErrors(b) = {} =>
              /\ \A i \in 1..Len(figmaIcons.icons[b]) :
                   \E j \in ProcessedOf(b) : processed[j][2] = figmaIcons.icons[b][i].id
              /\ Len(figmaIcons.icons[b]) =
                   Len(results[b].added) + Len(results[b].updated)
                     + Cardinality(IconErrors(b))
  /\ pc = "failed" =>
       /\ syncStats.errors # <<>>
       /\ LastError.type = "SYNC_ERROR"
       /\ LastError.message \in {"GET_ICONS_BY_BRAND_ERROR", "UPDATE_TOKENS_ERROR"}

\* A reported run in which one brand failed as a whole, an icon of another brand
\* failed, and a later icon of that brand was added.
C7_Witness ==
  /\ pc = "done"
  /\ ~dryRun
  /\ \E b \in RemoteBrands : BrandErrors(b) # {}
  /\ \E b \in RemoteBrands :
       /\ BrandErrors(b) = {}
       /\ IconErrors(b) # {}
       /\ results[b].added # <<>>
       /\ \E i \in 1..Len(figmaIcons.icons[b]) :
            /\ i > 1
            /\ figmaIcons.icons[b][i].name = results[b].added[1].name
            /\ figmaIcons.icons[b][1].name = results[b].errors[1].icon

\* C8: the registry file changes only in the step that ends the brand loop's
\* run (updateTokensFile), the assets directory changes only in the steps before
\* it, and a failed registry write leaves both as they are and fails the run.
C8_RegistryAfterAssets ==
  [][/\ tokens' # tokens =>
          pc = "tokens" /\ pc' = "done" /\ ~dryRun /\ assets' = assets
     /\ assets' # assets => pc \in {"brand", "icon", "removed"}
     /\ pc = "tokens" => pc' \in {"done", "failed"}
     /\ pc \in {"done", "failed"} => pc' = "idle"
     /\ (pc = "tokens" /\ pc' = "failed") =>
          /\ assets' = assets
          /\ tokens' = tokens
          /\ syncStats'.errors =
               Append(syncStats.errors,
                      [type |-> "SYNC_ERROR", message |-> "UPDATE_TOKENS_ERROR"])]_vars

\* A run that changed the assets directory and then failed to write the
\* registry: the change is in place, the registry is the stale one.
C8_Witness ==
  /\ pc = "failed"
  /\ ~dryRun
  /\ LastError.message = "UPDATE_TOKENS_ERROR"
  /\ assets # startAssets
  /\ \E b \in RemoteBrands : results[b].added # <<>>
  /\ tokens.exists
  /\ tokens.icon = StaleTokens

\* The distinct (brand, icon name) pairs of the remote listing.
RemotePairs == UNION {{<<b, n>> : n \in RemoteNames(b)} : b \in RemoteBrands}

PairKey(p) == p[1] \o <<"-">> \o p[2]

IsEntryOf(e, p) ==
  /\ e.value = p[1] \o <<"/">> \o p[2] \o <<".", "svg">>
  /\ e.type = "asset"
  /\ e.brand = p[1]
  /\ e.name = p[2]

\* C9, entries counted by pair: after an apply run the registry holds one entry per distinct
\* remote (brand, name) pair and nothing else, the entry of (b, n) under b-n
\* with value b/n.svg, type asset, brand b and name n, and as many entries as
\* there are pairs.
C9_OneEntryPerPair ==
  (pc = "done" /\ ~dryRun) =>
    /\ tokens.exists
    /\ DOMAIN tokens.icon = {PairKey(p) : p \in RemotePairs}
    /\ \A p \in RemotePairs : IsEntryOf(tokens.icon[PairKey(p)], p)
    /\ Cardinality(DOMAIN tokens.icon) = Cardinality(RemotePairs)

\* C9, entries counted by key: after an apply run the registry holds exactly the keys b-n of
\* the remote (brand, name) pairs; the entry under a key is that of a remote
\* pair with that key; a pair that shares its key with no other pair has its own
\* entry; there are as many entries as distinct keys.
C9_OneEntryPerKey ==
  (pc = "done" /\ ~dryRun) =>
    /\ tokens.exists
    /\ DOMAIN tokens.icon = {PairKey(p) : p \in RemotePairs}
    /\ \A k \in DOMAIN tokens.icon :
         \E p \in RemotePairs : PairKey(p) = k /\ IsEntryOf(tokens.icon[k], p)
    /\ \A p \in RemotePairs :
         (\A q \in RemotePairs : PairKey(q) = PairKey(p) => q = p)
           => IsEntryOf(tokens.icon[PairKey(p)], p)
    /\ Cardinality(DOMAIN tokens.icon) = Cardinality({PairKey(p) : p \in RemotePairs})

\* A rebuilt registry in which two remote pairs share one key.
C9_Witness ==
  /\ pc = "done"
  /\ ~dryRun
  /\ tokens.exists
  /\ \E p, q \in RemotePairs : p # q /\ PairKey(p) = PairKey(q)
  /\ Cardinality(DOMAIN tokens.icon) < Cardinality(RemotePairs)

\* C10: every entry of the registry file is stored under the key made of its
\* own brand and name fields.
C10_KeyFieldConsistency ==
  \A k \in DOMAIN tokens.icon :
    /\ "brand" \in DOMAIN tokens.icon[k]
    /\ "name" \in DOMAIN tokens.icon[k]
    /\ k = tokens.icon[k].brand \o <<"-">> \o tokens.icon[k].name

(***************************************************************************)
(* Properties of the Asset Store.                                          *)
(***************************************************************************)

\* The entries of listIcons(brandName) that carry the name.
EntriesNamed(as, brandName, name) ==
  LET l == GetIconsForBrand(as, brandName)
  IN  {i \in 1..Len(l.icons) : l.icons[i].name = name}

\* The last call had a brand name and an icon name that the store accepts.
NamesAccepted == bm.code \notin {"INVALID_BRAND_NAME", "INVALID_ICON_NAME"}

\* C11: after a successful addIconToBrand(B, I, content) into a brand of vector
\* files, listIcons(B) has exactly one entry named normalize(I); when the file
\* of I was already there, the call fails with ICON_EXISTS and the directory is
\* as before.
C11_AddThenListOnce ==
  (bm.op = "addIconToBrand" /\ bm.format = "svg" /\ SvgOnly(bm.before)) =>
    /\ bm.code = "OK" =>
         /\ GetIconsForBrand(assets, bm.brand).code = "OK"
         /\ Cardinality(EntriesNamed(assets, bm.brand, Sanitize(bm.icon))) = 1
    /\ (NamesAccepted /\ SvgExists(bm.before, Sanitize(bm.brand), Sanitize(bm.icon))) =>
         bm.code = "ICON_EXISTS" /\ assets = bm.before

\* C12: in every state of the store no brand lists two entries of one name.
C12_NamesUniquePerBrand ==
  \A b \in DOMAIN assets :
    \A f, g \in ListedFiles(assets[b]) : f[1] = g[1] => f = g

\* C13: addIconToBrand with format svg, accepted names, no file of the name and
\* content without "<svg" fails with INVALID_SVG_CONTENT and writes no file.
C13_InvalidContentError ==
  (/\ bm.op = "addIconToBrand"
   /\ bm.format = "svg"
   /\ ~Includes(bm.content, "<svg")
   /\ NamesAccepted
   /\ Sanitize(bm.icon) # <<>>
   /\ bm.code # "ICON_EXISTS")
  => /\ bm.code = "INVALID_SVG_CONTENT"
     /\ \A b \in DOMAIN assets :
          DOMAIN assets[b] = IF b \in DOMAIN bm.before THEN DOMAIN bm.before[b] ELSE {}

\* The file names of a brand directory, whatever their format.
FilesNamed(as, dir, name) ==
  IF dir \in DOMAIN as THEN {f \in DOMAIN as[dir] : f[1] = name} ELSE {}

\* C14: removeIconFromBrand(B, I) on an existing brand fails with
\* ICON_NOT_FOUND, the directory unchanged, exactly when no file of the name
\* exists in a supported format; after a successful call listIcons(B) has no
\* entry named normalize(I).
C14_RemoveThenAbsent ==
  (bm.op = "removeIconFromBrand" /\ NamesAccepted /\ bm.code # "BRAND_NOT_FOUND") =>
    /\ bm.code \in {"OK", "ICON_NOT_FOUND"}
    /\ bm.code = "ICON_NOT_FOUND" <=>
         {f \in FilesNamed(bm.before, Sanitize(bm.brand), Sanitize(bm.icon)) :
            FormatIndex(f[2]) > 0} = {}
    /\ bm.code = "ICON_NOT_FOUND" => assets = bm.before
    /\ bm.code = "OK" => EntriesNamed(assets, bm.brand, Sanitize(bm.icon)) = {}

IsNormalForm(s) ==
  /\ \A i \in 1..Len(s) : s[i] = "-" \/ (IsAlnum(s[i]) /\ ToLowerCase(s[i]) = s[i])
  /\ \A i \in 1..Len(s) - 1 : ~(s[i] = "-" /\ s[i + 1] = "-")
  /\ s # <<>> => s[1] # "-" /\ s[Len(s)] # "-"

\* C16: a sanitizer applied to its own result returns that result again, and
\* its result for a non-empty name is in normal form.
C16_NormalizeIdempotent ==
  (norm.fn # "none" /\ norm.code = "OK") =>
    /\ norm.code2 = "OK"
    /\ norm.out2 = norm.out
    /\ norm.input # <<>> => IsNormalForm(norm.out)

(***************************************************************************)
(* Properties of the multi-brand build.                                    *)
(***************************************************************************)

BuildIndexes == 1..Len(mb.brands)

\* build() has returned after settling every brand build.
Reported == mb.state = "done" /\ Len(mb.brands) > 0

\* The build report names brand build i among its errors.
InErrors(i) == \E k \in 1..Len(mb.errors) : mb.errors[k].brand = mb.brands[i]

\* Brand build i threw in generateFontFiles.
ThrewInFont(i) == mb.stage[i] = "rejected" /\ mb.why[i] \in {"NO_FILES", "FONT_ERROR"}

\* Brand build i, run alone, completes: its brand has vector icons and no
\* stage of it was made to fail.
BuildsAlone(i) ==
  /\ GetIconsForBrand(assets, mb.brands[i]).code = "OK"
  /\ HasSvg(assets, GetBrandDirectory(mb.brands[i]), mb.rootSvg)
  /\ mb.why[i] \notin {"STYLES_ERROR", "PNG_ERROR", "FONT_ERROR"}

\* C17: build isolation.  When brand X's build throws during its font stage,
\* a concurrent brand Y's build still completes under every interleaving,
\* X's failure is recorded with its brand, and the report counts Y as built.
C17_BuildIsolation ==
  \A x, y \in BuildIndexes :
    (Reported /\ x # y /\ ThrewInFont(x) /\ BuildsAlone(y)) =>
      /\ mb.stage[y] = "fulfilled"
      /\ InErrors(x)
      /\ ~InErrors(y)
      /\ mb.successCount >= 1

\* C18: the font stage restores the working directory on every exit path:
\* whenever generateFontFiles returns or throws, the working directory is the
\* one at its entry, and after build() it is the one at build start.
C18_FontRestoresCwd ==
  /\ \A i \in BuildIndexes : mb.exit[i] # NoDir => mb.exit[i] = mb.orig[i]
  /\ mb.state = "done" => mb.cwd = StartDir

\* C19: font-stage use of the working directory is serialized: at most one
\* brand build is between its change of directory and its restoration, and
\* while a brand's font compilation is in flight the working directory is
\* that brand's asset directory.
C19_FontStageSerialized ==
  \A i \in BuildIndexes :
    mb.stage[i] = "font" =>
      /\ \A j \in BuildIndexes : mb.stage[j] = "font" => j = i
      /\ mb.cwd = GetBrandDirectory(mb.brands[i])

\* The icon snapshot of brand build i is empty.
EmptySnapshot(i) ==
  LET r == GetIconsForBrand(assets, mb.brands[i])
  IN  r.code = "OK" /\ r.icons = <<>>

\* C20: a brand whose icon snapshot is empty fails its whole brand build:
\* the build is counted as failed, the report names the brand among its
\* errors, and build() does not report overall success.
C20_EmptySnapshotFails ==
  \A i \in BuildIndexes :
    (Reported /\ EmptySnapshot(i)) =>
      /\ mb.stage[i] = "rejected"
      /\ InErrors(i)
      /\ mb.successCount < Len(mb.brands)
      /\ ~mb.ok

(***************************************************************************)
(* Properties of the process exit and of the remote adapter.               *)
(***************************************************************************)

\* An item (an icon or a brand) of the finished run failed.
ItemFailed(run) ==
  \/ \E b \in DOMAIN run.results : run.results[b].errors # <<>>
  \/ \E k \in 1..Len(run.syncStats.errors) : run.syncStats.errors[k].type # "SYNC_ERROR"

\* C21: a run in which an icon or a brand failed still ends with its report
\* and then exits non-zero; the process exits zero only when no item failed.
C21_ExitNonZeroOnItemFailure ==
  (prev.ran /\ prev.pc = "done") => (prev.exit = 0 <=> ~ItemFailed(prev))

\* C22: authentication and authorization failures are never retried: after a
\* response with status 401 or 403 the request function is not invoked again,
\* no backoff sleep follows and the call has failed; downloads included.
C22_AuthNeverRetried ==
  \A k \in 1..Len(api.statuses) :
    api.statuses[k] \in {"401", "403"} =>
      /\ k = Len(api.statuses)
      /\ api.invoked = k
      /\ Len(api.sleeps) = k - 1
      /\ api.state = "thrown"

\* The retry loop is bounded and backs off exponentially.
RetryBounded ==
  /\ api.invoked <= retryAttempts
  /\ Len(api.sleeps) <= api.invoked
  /\ \A k \in 1..Len(api.sleeps) : api.sleeps[k] = retryDelay * 2^(k - 1)
  /\ \A k \in 1..(Len(api.statuses) - 1) :
       UsesClient(api.method) => api.statuses[k] # "200"
  /\ api.state = "returned" =>
       api.statuses[Len(api.statuses)] = "200" /\ api.invoked = Len(api.statuses)
  /\ (api.state = "thrown" /\ api.invoked = retryAttempts) =>
       api.error = ErrorCode(api.method, api.statuses[retryAttempts])

\* C23: retryRequest invokes the request function at most `attempts` times,
\* sleeps retryDelay * 2^i before retry i + 1, surfaces the last failure,
\* returns as soon as an attempt succeeds, and always terminates.
C23_RetryBounded ==
  /\ []RetryBounded
  /\ (api.state = "attempt") ~> (api.state \in {"returned", "thrown"})

\* Three attempts failed, with sleeps of 1000 and 2000 between them.
C23_Witness ==
  /\ api.state = "thrown"
  /\ api.invoked = retryAttempts
  /\ api.sleeps = <<retryDelay, 2 * retryDelay>>
  /\ api.statuses = <<"500", "none", "500">>

\* C24: every network request of the adapter is preceded by rateLimitRequest
\* and updates lastRequestTime.
C24_AllRequestsLimited ==
  \A k \in 1..Len(api.requests) :
    api.requests[k].limited /\ api.requests[k].last = api.requests[k].at

\* A 22-character alphanumeric string.
WellFormedKey(k) == Len(k) = 22 /\ \A j \in 1..Len(k) : IsKeyChar(k[j])

\* The call made no network request and failed.
FailedOffline == api.requests = <<>> /\ api.invoked = 0 /\ api.state = "thrown"

\* C27: argument validation precedes the network.  getFile,
\* getFileComponents, getFileNodes and exportNodes issue no request for a file
\* key that is not 22 alphanumeric characters and fail with an invalid file key
\* error; exportNodes issues none for an unsupported format, failing with
\* INVALID_FORMAT when its other arguments are valid, nor for an empty node id
\* list.
C27_ValidationBeforeNetwork ==
  /\ (api.method \in Methods \ {"downloadSvg"} /\ ~WellFormedKey(api.fileKey)) =>
       FailedOffline /\ api.error \in {"INVALID_FILE_KEY", "INVALID_FILE_KEY_FORMAT"}
  /\ (api.method = "exportNodes" /\ api.format \notin {"svg", "png", "jpg", "pdf"}) =>
       /\ FailedOffline
       /\ (WellFormedKey(api.fileKey) /\ api.nodeIds # <<>>) => api.error = "INVALID_FORMAT"
  /\ (api.method = "exportNodes" /\ api.nodeIds = <<>>) => FailedOffline

\* exportNodes was called with a valid key and node ids and format gif.
C27_Witness ==
  /\ api.method = "exportNodes"
  /\ api.fileKey = GoodKey
  /\ api.nodeIds # <<>>
  /\ api.format = "gif"
  /\ api.error = "INVALID_FORMAT"
  /\ api.state = "thrown"

\* C25: any two requests released by rateLimitRequest are released at least
\* 60000 / rateLimit milliseconds apart, also when several are waiting at once.
C25_MinimumInterval ==
  \A v, w \in 1..Len(api.waiters) :
    (v < w /\ api.waiters[v].state = "released" /\ api.waiters[w].state = "released") =>
      \/ api.waiters[w].at - api.waiters[v].at >= 60000 \div rateLimit
      \/ api.waiters[v].at - api.waiters[w].at >= 60000 \div rateLimit

\* The file key or the access token of the run is missing or malformed.
InvalidConfig ==
  /\ api.configToken # "none"
  /\ api.configToken \in {"missing", "malformed"} \/ ~WellFormedKey(api.configKey)

\* C26: configuration errors are fatal before any work.  In a run whose file
\* key or access token is missing or malformed no network request is issued,
\* no brand is processed, and the Asset Store, the Token Registry and their
\* directories stay as the run found them.
C26_ConfigErrorsFatal ==
  (pc # "idle" /\ InvalidConfig) =>
    /\ pc \in {"fetch", "failed"}
    /\ api.requests = <<>>
    /\ assets = api.before.assets
    /\ tokensDir = api.before.tokensDir
    /\ tokens = api.before.tokens

(***************************************************************************)
(* Properties of the stages of a brand build and of the fan-out.           *)
(***************************************************************************)

\* The stages a brand build runs for a platform scope, in their order.
SelectedStages(platform) ==
  <<"styles">>
  \o (IF platform \in {"all", "svg"} THEN <<"svg">> ELSE <<>>)
  \o (IF platform \in {"all", "png"} THEN <<"png">> ELSE <<>>)
  \o (IF platform \in {"all", "font"} THEN <<"font">> ELSE <<>>)
  \o (IF platform \in {"all", "webcomponent"} THEN <<"webcomponent">> ELSE <<>>)
  \o <<"package">>

IsPrefix(s, t) == Len(s) <= Len(t) /\ \A k \in 1..Len(s) : s[k] = t[k]

\* The stage in which brand build i threw, when it threw in one.
ThrowingStage(i) ==
  CASE mb.why[i] = "STYLES_ERROR" -> "styles"
    [] mb.why[i] = "PNG_ERROR" -> "png"
    [] mb.why[i] \in {"NO_FILES", "FONT_ERROR"} -> "font"
    [] OTHER -> "none"

\* C28: within one brand's build the selected stages run one after another in
\* the fixed order, a stage that throws is the last one to run, and the stages
\* work on the icons of the snapshot taken at brand-build start: the font
\* stage compiles the files of the directory the snapshot was taken from.
C28_StagesSequential ==
  \A i \in BuildIndexes :
    /\ IsPrefix(mb.ran[i], SelectedStages(mb.platform))
    /\ (mb.stage[i] = "rejected" /\ mb.ran[i] # <<>>) =>
         mb.ran[i][Len(mb.ran[i])] = ThrowingStage(i)
    /\ mb.read[i] # NoDir => mb.read[i] = GetBrandDirectory(mb.brands[i])

\* C29: every brand build that completes leaves a package.json named
\* @your-org/icons-<brand> whose metadata.iconCount is the size of the icon
\* snapshot, whatever the platform scope.
C29_PackageAlwaysEmitted ==
  \A i \in BuildIndexes :
    mb.stage[i] = "fulfilled" =>
      /\ mb.pkg[i].written
      /\ mb.pkg[i].org = "your-org"
      /\ mb.pkg[i].brand = mb.brands[i]
      /\ mb.pkg[i].iconCount = Len(GetIconsForBrand(assets, mb.brands[i]).icons)

\* Brand build i has gone past its first await.
Resumed(i) == mb.stage[i] \in {"png", "font"} \/ Len(mb.ran[i]) > 1

\* Every brand build starts before any is awaited, the report comes after all
\* have settled, and successes plus recorded errors make the selected brands.
FanOutFanIn ==
  /\ (\E i \in BuildIndexes : Resumed(i)) => mb.started = Len(mb.brands)
  /\ mb.state = "done" =>
       /\ \A i \in BuildIndexes : Settled(mb, i)
       /\ mb.successCount = Cardinality({i \in BuildIndexes : mb.stage[i] = "fulfilled"})
       /\ mb.successCount + Len(mb.errors) = Len(mb.brands)

\* C30: fan-out/fan-in, and build() returns success exactly when every
\* selected brand build succeeded.
C30_FanOutFanIn ==
  /\ FanOutFanIn
  /\ mb.state = "done" => (mb.ok <=> \A i \in BuildIndexes : mb.stage[i] = "fulfilled")

\* C30, amended: build() returns success exactly when at least one brand was
\* selected and every selected brand build succeeded.
C30_FanOutFanInSelected ==
  /\ FanOutFanIn
  /\ mb.state = "done" =>
       (mb.ok <=> (Len(mb.brands) > 0 /\ \A i \in BuildIndexes : mb.stage[i] = "fulfilled"))

\* A build of two brands was reported with one success and one failure.
C30_Witness ==
  /\ mb.state = "done"
  /\ Len(mb.brands) = 2
  /\ mb.successCount = 1
  /\ Len(mb.errors) = 1
  /\ ~mb.ok

(***************************************************************************)
(* Font code points                                                        *)
(***************************************************************************)

\* Brand build i wrote its font and stylesheet.
FontWritten(i) == mb.css[i] # <<>>

\* C31: in every brand build that wrote its font and stylesheet, each glyph
\* of the font has a class of its icon's name, every class of that name
\* carries the glyph's code point 0xE000 + position, and the code points of
\* the stylesheet are pairwise distinct.
C31_CodePointsMatchGlyphs ==
  \A i \in BuildIndexes :
    FontWritten(i) =>
      /\ \A g \in 1..Len(mb.glyphs[i]) :
           /\ \E k \in 1..Len(mb.css[i]) : mb.css[i][k].name = mb.glyphs[i][g]
           /\ \A k \in 1..Len(mb.css[i]) :
                mb.css[i][k].name = mb.glyphs[i][g] =>
                  mb.css[i][k].code = startUnicode + (g - 1)
      /\ \A k, l \in 1..Len(mb.css[i]) :
           mb.css[i][k].code = mb.css[i][l].code => k = l

(***************************************************************************)
(* The remote listing                                                      *)
(***************************************************************************)

\* getIconsByBrand has returned its listing of the remote file.
Listed == figmaIcons # NoIcons

C33_NoDanglingTokens ==
  (pc = "done" /\ ~dryRun) =>
    \A k \in DOMAIN tokens.icon :
      EntriesNamed(assets, tokens.icon[k].brand, tokens.icon[k].name) # {}

(***************************************************************************)
(* The order of processing within a run                                    *)
(***************************************************************************)

\* The node ids of the remote listing of brand b, in the listing's order.
ListedIds(b) == [i \in 1..Len(figmaIcons.icons[b]) |-> figmaIcons.icons[b][i].id]

\* The node ids processIcon was called for in brand b, in the order of the calls.
ProcessedIds(b) ==
  LET s == SelectSeq(processed, LAMBDA x : x[1] = b)
  IN  [i \in 1..Len(s) |-> s[i][2]]

\* The place of brand b in the order of the listing.
BrandPosition(b) == CHOOSE i \in 1..Len(figmaIcons.order) : figmaIcons.order[i] = b

\* The export call of brand b failed.
ExportFailed(b) ==
  \E i \in 1..Len(syncStats.errors) :
    syncStats.errors[i].type = "EXPORT_ERROR" /\ syncStats.errors[i].brand = b

\* The brand loop has left brand b behind.
BrandOver(b) == BrandPosition(b) < brandIdx \/ pc \in {"tokens", "done"}

\* The icons processed so far are, brand after brand in the order of the
\* listing, the icons of each brand in the order of the listing; a brand the
\* loop has left has had all of its icons processed, or none; and removed-icon
\* detection is reached with all icons of the brand processed, or with none
\* when the export call failed.
ProcessedInOrder ==
  pc \in {"brand", "export", "icon", "removed", "tokens", "done"} =>
    /\ \A b \in RemoteBrands : IsPrefix(ProcessedIds(b), ListedIds(b))
    /\ \A i, j \in 1..Len(processed) :
         i < j => BrandPosition(processed[i][1]) <= BrandPosition(processed[j][1])
    /\ \A b \in RemoteBrands :
         BrandOver(b) => ProcessedIds(b) \in {ListedIds(b), <<>>}
    /\ pc = "removed" =>
         \/ ProcessedIds(figmaIcons.order[brandIdx]) = ListedIds(figmaIcons.order[brandIdx])
         \/ /\ ProcessedIds(figmaIcons.order[brandIdx]) = <<>>
            /\ ExportFailed(figmaIcons.order[brandIdx])

\* A step changes the removed list of a brand only as that brand's
\* removed-icon detection, and its added and updated lists only as the
\* processing of one of that brand's icons.
ListsChangeInTurn ==
  \A b \in DOMAIN results \cap DOMAIN results' :
    /\ results'[b].removed # results[b].removed =>
         pc = "removed" /\ b = figmaIcons.order[brandIdx]
    /\ (results'[b].added # results[b].added \/ results'[b].updated # results[b].updated) =>
         pc = "icon" /\ b = figmaIcons.order[brandIdx]

\* C34: the icons of a brand are processed one at a time in the order of the
\* remote listing, removed-icon detection of the brand runs after the
\* processing of all of its icons (of none when its export call failed), and
\* a brand is finished before the next one starts.
C34_ProcessingOrder == []ProcessedInOrder /\ [][ListsChangeInTurn]_vars

\* An apply run over a brand of two remote icons, both processed, after which
\* a local icon was removed; and a brand whose export call failed.
C34_Witness ==
  /\ pc = "done"
  /\ \E b \in RemoteBrands :
       /\ Len(figmaIcons.icons[b]) = 2
       /\ ProcessedIds(b) = ListedIds(b)
       /\ results[b].removed # <<>>
       /\ results[b].added # <<>>

\* Removed-icon detection reached after a failed export call.
C34_WitnessExportFailed ==
  /\ pc = "removed"
  /\ ExportFailed(figmaIcons.order[brandIdx])
  /\ Len(figmaIcons.icons[figmaIcons.order[brandIdx]]) = 2

(***************************************************************************)
(* The report's counts                                                     *)
(***************************************************************************)

\* The sum over the brands of the listing of the length of one list of their
\* results.
RECURSIVE SumOverBrands(_, _)
SumOverBrands(order, list) ==
  IF order = <<>> THEN 0
  ELSE Len(results[order[1]][list]) + SumOverBrands(Tail(order), list)

\* C35: in the report of a run, preview or apply, the global added, updated
\* and removed counts are the sums of the lengths of the brands' added,
\* updated and removed lists, and the number of global errors is the sum of
\* the lengths of the brands' error lists.
C35_CountsAgree ==
  pc = "done" =>
    /\ syncStats.added = SumOverBrands(figmaIcons.order, "added")
    /\ syncStats.updated = SumOverBrands(figmaIcons.order, "updated")
    /\ syncStats.removed = SumOverBrands(figmaIcons.order, "removed")
    /\ Len(syncStats.errors) = SumOverBrands(figmaIcons.order, "errors")

(***************************************************************************)
(* Local brands the remote file does not have                              *)
(***************************************************************************)

\* The brand directories the run found that the remote listing does not name.
LocalOnlyBrands == DOMAIN startAssets \ RemoteBrands

\* C36: from the start of a run to its end, a brand directory the run found
\* that is no brand of the remote listing holds the files it held at the
\* start, and the per-brand results have no entry for it.
C36_LocalOnlyBrandUntouched ==
  pc # "idle" =>
    \A b \in LocalOnlyBrands :
      /\ b \in DOMAIN assets
      /\ assets[b] = startAssets[b]
      /\ b \notin DOMAIN results

\* An apply run that changed the brand of the remote listing and ended, next
\* to a local brand the listing does not have.
C36_Witness ==
  /\ pc = "done"
  /\ ~dryRun
  /\ Listed
  /\ LocalOnlyBrands # {}
  /\ \E b \in RemoteBrands : b \in DOMAIN startAssets /\ assets[b] # startAssets[b]

(***************************************************************************)
(* A failed addIconToBrand                                                 *)
(***************************************************************************)

\* C37: after an addIconToBrand that failed, the brands of the store and the
\* icon list of every brand are those from before the call.
C37_FailedAddIsAtomic ==
  (bm.op = "addIconToBrand" /\ bm.code # "OK") =>
    /\ GetAllBrands(assets) = GetAllBrands(bm.before)
    /\ \A b \in GetAllBrands(assets) :
         GetIconsForBrand(assets, b) = GetIconsForBrand(bm.before, b)

(***************************************************************************)
(* Which failures are retried                                              *)
(***************************************************************************)

\* The answers that are transient failures: no response, a rate-limit
\* response, a server error.
TransientStatuses == {"none", "429", "500", "502", "503", "504"}

\* C38: retryRequest sleeps and invokes the request function again only after
\* a transient failure; after a download that is no vector document (answer
\* 200 without '<svg') or another client error it rethrows at once.
C38_OnlyTransientRetried ==
  \A k \in 1..Len(api.sleeps) : api.statuses[k] \in TransientStatuses

(***************************************************************************)
(* syncWithFileSystem                                                      *)
(***************************************************************************)

\* The (brand, icon name) pairs the store lists.
StorePairs(as) ==
  UNION {{<<b, f[1]>> : f \in ListedFiles(as[b])} : b \in GetAllBrands(as)}

\* The step is a call of syncWithFileSystem.
SyncedStep == tm'.op = "syncWithFileSystem" /\ tm'.calls = tm.calls + 1

\* The registry new has exactly the keys of the pairs the store lists, and
\* the entry under a key carries the brand and name of a listed pair of that
\* key.
ProjectionPerKey(new, as) ==
  /\ new.exists
  /\ DOMAIN new.icon = {PairKey(p) : p \in StorePairs(as)}
  /\ \A k \in DOMAIN new.icon :
       \E p \in StorePairs(as) :
         PairKey(p) = k /\ new.icon[k].brand = p[1] /\ new.icon[k].name = p[2]
  /\ \A p \in StorePairs(as) :
       (\A q \in StorePairs(as) : PairKey(q) = PairKey(p) => q = p) =>
         new.icon[PairKey(p)].brand = p[1] /\ new.icon[PairKey(p)].name = p[2]

\* The registry new has one entry for every pair the store lists, under the
\* pair's key and with its brand and name, and no other entry.
ProjectionPerPair(new, as) ==
  /\ new.exists
  /\ DOMAIN new.icon = {PairKey(p) : p \in StorePairs(as)}
  /\ \A p \in StorePairs(as) :
       new.icon[PairKey(p)].brand = p[1] /\ new.icon[PairKey(p)].name = p[2]
  /\ Cardinality(DOMAIN new.icon) = Cardinality(StorePairs(as))

\* An entry of new whose key the registry old had keeps the description and
\* the originalName it had there.
KeptFields(old, new) ==
  \A k \in DOMAIN new.icon \cap DOMAIN LoadTokens(old) :
    /\ OrElse(LoadTokens(old)[k], "description", <<>>) # <<>> =>
         new.icon[k].description = LoadTokens(old)[k].description
    /\ OrElse(LoadTokens(old)[k], "originalName", <<>>) # <<>> =>
         new.icon[k].originalName = LoadTokens(old)[k].originalName

\* C39, entries counted by pair: a call of syncWithFileSystem leaves a
\* registry with one entry for every (brand, icon) pair the store lists, keyed
\* brand-name, and no other entry; an entry that existed keeps its description
\* and originalName.
C39_ProjectionPerPair ==
  [][SyncedStep => ProjectionPerPair(tokens', assets) /\ KeptFields(tokens, tokens')]_vars

\* C39, entries counted by key: a call of syncWithFileSystem leaves a
\* registry with exactly the keys brand-name of the pairs the store lists,
\* each entry that of a listed pair of its key; an entry that existed keeps
\* its description and originalName.
C39_ProjectionPerKey ==
  [][SyncedStep => ProjectionPerKey(tokens', assets) /\ KeptFields(tokens, tokens')]_vars

\* syncWithFileSystem was called on a store in which two listed pairs share
\* one key, and the registry is what the call left.
C39_Witness ==
  /\ tm.op = "syncWithFileSystem"
  /\ pc = "idle"
  /\ tokens = SyncWithFileSystem(tokens, assets)
  /\ \E p, q \in StorePairs(assets) : p # q /\ PairKey(p) = PairKey(q)
  /\ Cardinality(DOMAIN tokens.icon) < Cardinality(StorePairs(assets))

(***************************************************************************)
(* The registry integrity check                                            *)
(***************************************************************************)

\* Every token of the object has value, type, brand and name and sits under
\* the key of its brand and name.
WellFormedTokens(t) ==
  /\ t.kind = "object"
  /\ \A i \in 1..Len(t.entries) :
       /\ \A f \in TokenFields : ~Missing(t.entries[i][2], f)
       /\ t.entries[i][1] = t.entries[i][2].brand \o <<"-">> \o t.entries[i][2].name

\* A token of the object has no brand or no name.
LacksBrandOrName(t) ==
  \E i \in 1..Len(t.entries) :
    Missing(t.entries[i][2], "brand") \/ Missing(t.entries[i][2], "name")

\* C40: validateTokenStructure returns for every argument, never throws; the
\* list it returns is empty exactly when every token has value, type, brand
\* and name and its key is brand-name; for a token without brand or name the
\* list has messages.
C40_ValidationReturnsErrors ==
  tm.op = "validateTokenStructure" =>
    /\ tm.code = "OK"
    /\ tm.errors = <<>> <=> WellFormedTokens(tm.input)
    /\ LacksBrandOrName(tm.input) => tm.errors # <<>>

====
